---- MODULE Spec2Model ----
(***************************************************************************)
(* Capacity-mode automation for Temporal Cloud namespaces.                 *)
(*                                                                         *)
(* The module models                                                       *)
(*   - the recommendation engine _calculate_recommended_trus and its       *)
(*     helper calculate_minimum_charged_aps (activities/namespace_ops.py), *)
(*   - the state reader CloudOpsClient.get_namespace_info                  *)
(*     (cloud_ops_client.py),                                              *)
(*   - the allow/deny filter Settings.should_manage_namespace (config.py), *)
(*   - the bulk evaluation activity get_all_namespace_metrics              *)
(*     (activities/namespace_ops.py).                                      *)
(*                                                                         *)
(* Throughput values (action_limit, action_count) are floats in the code.  *)
(* They are modelled exactly as rationals with denominator Scale: the      *)
(* integer x stands for x / Scale actions per second.  Every threshold of  *)
(* the code is an integer number of actions per second, so floor, ceil and *)
(* the comparisons are computed exactly on the scaled integers.            *)
(***************************************************************************)
EXTENDS Integers, Sequences, FiniteSets, TLC

(***************************************************************************)
(* Bounds of the model.                                                    *)
(***************************************************************************)
\* sub-units per action/second: inputs are multiples of 1/Scale
Scale == 2
\* largest provisioned size implied by an action_limit input
MaxUnits == 12
\* action_count inputs lie around the multiples of 100 up to 100 * MaxLoadHundreds
MaxLoadHundreds == 66
\* largest provisioned currentValue the control plane reports
MaxCpTru == 3

(***************************************************************************)
(* Constants of the program.                                               *)
(***************************************************************************)
max_aps_per_tru == 500
min_aps_per_additional_tru == 100
scale_up_percent == 80
heartbeat_every == 5

(***************************************************************************)
(* Arithmetic of the code on scaled values.                                *)
(***************************************************************************)
\* Python max(a, b)
max(a, b) == IF a >= b THEN a ELSE b

\* math.floor(x / d) for the scaled value x and the integer d
math_floor_div(x, d) == x \div (d * Scale)

\* math.ceil(x / d) for the scaled value x and the integer d
math_ceil_div(x, d) == (x + d * Scale - 1) \div (d * Scale)

(***************************************************************************)
(* The recommendation engine.                                              *)
(***************************************************************************)
calculate_minimum_charged_aps(trus) ==
    IF trus = 0 THEN 0
    ELSE IF trus = 1 THEN 0
    ELSE (trus - 1) * 100

\* lines 247-252 without the normalisation of 1 TRU to 0
current_trus_raw(action_limit) ==
    math_floor_div(action_limit, max_aps_per_tru)

\* lines 247-252: current TRUs from the limit, 1 TRU treated as 0
current_trus_of(action_limit) ==
    LET current_trus == math_floor_div(action_limit, max_aps_per_tru)
    IN  IF current_trus <= 1 THEN 0 ELSE current_trus

\* ">=" in place of ">" at line 257
on_demand_trus_ge(action_count) ==
    IF action_count >= max_aps_per_tru * Scale
    THEN max(2, math_ceil_div(action_count, max_aps_per_tru))
    ELSE 0

\* floor in place of ceil at line 259
on_demand_trus_floor(action_count) ==
    IF action_count > max_aps_per_tru * Scale
    THEN max(2, math_floor_div(action_count, max_aps_per_tru))
    ELSE 0

\* provisioning enabled for any load above 0 in place of 500 at line 257
on_demand_trus_eager(action_count) ==
    IF action_count > 0
    THEN max(2, math_ceil_div(action_count, max_aps_per_tru))
    ELSE 0

\* lines 255-262: recommendation when no provisioning is enabled
on_demand_trus(action_count) ==
    IF action_count > max_aps_per_tru * Scale
    THEN max(2, math_ceil_div(action_count, max_aps_per_tru))
    ELSE 0

\* a scale-up sized by the load instead of one step
scale_up_trus_jump(current_trus, action_count) ==
    max(current_trus + 1, math_ceil_div(action_count, max_aps_per_tru))

\* a scale-up from 10% of the capacity on
scale_up_needed_ten(current_trus, action_count) ==
    action_count * 100 >= 10 * (current_trus * max_aps_per_tru) * Scale

\* lines 265-270: utilization_percent >= 80, with
\* utilization_percent = (action_count / max_capacity) * 100
scale_up_needed(current_trus, action_count) ==
    action_count * 100 >= scale_up_percent * (current_trus * max_aps_per_tru) * Scale

\* a step down in place of the step up of line 271
scale_up_trus_minus(current_trus, action_count) == current_trus - 1

\* line 271
scale_up_trus(current_trus, action_count) == current_trus + 1

\* "<=" in place of "<" at line 274
scale_down_needed_le(current_trus, action_count) ==
    action_count <= calculate_minimum_charged_aps(current_trus) * Scale

\* lines 267, 274: usage below the minimum charged for the current size
scale_down_needed(current_trus, action_count) ==
    action_count < calculate_minimum_charged_aps(current_trus) * Scale

\* "<" in place of "<=" at line 276
scale_down_trus_lt(current_trus, action_count) ==
    IF action_count < max_aps_per_tru * Scale
    THEN 0
    ELSE max(2, math_floor_div(action_count, min_aps_per_additional_tru) + 1)

\* the "+ 1" of line 282 left out
scale_down_trus_no_plus(current_trus, action_count) ==
    IF action_count <= max_aps_per_tru * Scale
    THEN 0
    ELSE max(2, math_floor_div(action_count, min_aps_per_additional_tru))

\* the gradual scale-down: at most one TRU removed per check
scale_down_trus_gradual(current_trus, action_count) ==
    LET optimal_trus ==
            math_floor_div(action_count, min_aps_per_additional_tru) + 1
        next_trus == max(optimal_trus, current_trus - 1)
    IN  IF next_trus <= 1 THEN 0 ELSE next_trus

\* ceil in place of floor at line 282
scale_down_trus_ceil(current_trus, action_count) ==
    IF action_count <= max_aps_per_tru * Scale
    THEN 0
    ELSE max(2, math_ceil_div(action_count, min_aps_per_additional_tru) + 1)

\* lines 275-286: the size recommended by the scale-down branch
scale_down_trus(current_trus, action_count) ==
    IF action_count <= max_aps_per_tru * Scale
    THEN 0
    ELSE max(2, math_floor_div(action_count, min_aps_per_additional_tru) + 1)

\* lines 231-289
_calculate_recommended_trus(action_limit, action_count) ==
    LET current_trus == current_trus_of(action_limit)
    IN  IF current_trus = 0
        THEN on_demand_trus(action_count)
        ELSE IF scale_up_needed(current_trus, action_count)
        THEN scale_up_trus(current_trus, action_count)
        ELSE IF scale_down_needed(current_trus, action_count)
        THEN scale_down_trus(current_trus, action_count)
        ELSE current_trus

(***************************************************************************)
(* The control plane and its reader.                                       *)
(*                                                                         *)
(* The answer of GET /cloud/namespaces/{namespace} is a record             *)
(* [http, currentValue]: http is "ok", "404" or "error" (any other HTTP    *)
(* failure); currentValue is capacity.provisioned.currentValue of the      *)
(* namespace, None when the field is absent.                               *)
(***************************************************************************)
\* Python None where an Optional[int] is expected
None == -1

ProvisioningState_ENABLED == "enabled"
ProvisioningState_DISABLED == "disabled"

\* the test "tru_count and tru_count > 0" without its truthiness part
is_provisioned_value_no_truthy(tru_count) ==
    tru_count >= 0

\* lines 259-263: "tru_count and tru_count > 0"
is_provisioned_value(tru_count) ==
    tru_count # None /\ tru_count # 0 /\ tru_count > 0

\* CloudOpsClient.get_namespace_info: "raise", "none" (404) or a NamespaceInfo
get_namespace_info(response) ==
    IF response.http = "404"
    THEN [result |-> "none", provisioning_state |-> ProvisioningState_DISABLED,
          current_tru_count |-> None]
    ELSE IF response.http = "error"
    THEN [result |-> "raise", provisioning_state |-> ProvisioningState_DISABLED,
          current_tru_count |-> None]
    ELSE IF is_provisioned_value(response.currentValue)
    THEN [result |-> "info", provisioning_state |-> ProvisioningState_ENABLED,
          current_tru_count |-> response.currentValue]
    ELSE [result |-> "info", provisioning_state |-> ProvisioningState_DISABLED,
          current_tru_count |-> None]

(***************************************************************************)
(* Settings.should_manage_namespace.                                       *)
(***************************************************************************)
\* a namespace of the allowlist managed whatever the denylist says
should_manage_namespace_allow_wins(allowlist, denylist, namespace) ==
    IF allowlist # {}
    THEN namespace \in allowlist
    ELSE IF denylist # {} /\ namespace \in denylist
    THEN FALSE
    ELSE TRUE

should_manage_namespace(allowlist, denylist, namespace) ==
    IF allowlist # {} /\ namespace \notin allowlist
    THEN FALSE
    ELSE IF denylist # {} /\ namespace \in denylist
    THEN FALSE
    ELSE TRUE

(***************************************************************************)
(* get_all_namespace_metrics: the parts of one loop iteration.             *)
(***************************************************************************)
\* a wrong cut-off in the test of line 154
recommended_capacity_mode_le2(recommended_trus) ==
    IF recommended_trus <= 2 THEN "on-demand" ELSE "provisioned"

\* lines 153-157
recommended_capacity_mode_of(recommended_trus) ==
    IF recommended_trus = 0 THEN "on-demand" ELSE "provisioned"

\* lines 159-178: current mode and TRUs from the Cloud Ops lookup
current_state_of_unknown(lookup) ==
    IF lookup.result = "raise"
    THEN [current_capacity_mode |-> "unknown", current_trus |-> None]
    ELSE IF lookup.result = "none"
    THEN [current_capacity_mode |-> "unknown", current_trus |-> None]
    ELSE IF lookup.provisioning_state = ProvisioningState_ENABLED
    THEN [current_capacity_mode |-> "provisioned",
          current_trus |-> lookup.current_tru_count]
    ELSE [current_capacity_mode |-> "on-demand", current_trus |-> None]

current_state_of(lookup) ==
    IF lookup.result = "raise"
    THEN [current_capacity_mode |-> "on-demand", current_trus |-> None]
    ELSE IF lookup.result = "none"
    THEN [current_capacity_mode |-> "on-demand", current_trus |-> None]
    ELSE IF lookup.provisioning_state = ProvisioningState_ENABLED
    THEN [current_capacity_mode |-> "provisioned",
          current_trus |-> lookup.current_tru_count]
    ELSE [current_capacity_mode |-> "on-demand", current_trus |-> None]

\* a recommendation of 0 units whenever the state lookup gives no state
recommendation_for_known_state(entry, response) ==
    LET action_limit == entry.action_limit
        action_count == entry.action_count
        lookup == get_namespace_info(response)
        recommended_trus ==
            IF lookup.result = "info"
            THEN _calculate_recommended_trus(action_limit, action_count)
            ELSE 0
        current == current_state_of(lookup)
    IN  [namespace |-> entry.namespace,
         action_limit |-> action_limit,
         action_count |-> action_count,
         recommended_trus |-> recommended_trus,
         current_capacity_mode |-> current.current_capacity_mode,
         current_trus |-> current.current_trus,
         recommended_capacity_mode |-> recommended_capacity_mode_of(recommended_trus)]

\* lines 147-188: the NamespaceRecommendation of one snapshot entry
recommendation_for(entry, response) ==
    LET action_limit == entry.action_limit
        action_count == entry.action_count
        recommended_trus == _calculate_recommended_trus(action_limit, action_count)
        current == current_state_of(get_namespace_info(response))
    IN  [namespace |-> entry.namespace,
         action_limit |-> action_limit,
         action_count |-> action_count,
         recommended_trus |-> recommended_trus,
         current_capacity_mode |-> current.current_capacity_mode,
         current_trus |-> current.current_trus,
         recommended_capacity_mode |-> recommended_capacity_mode_of(recommended_trus)]

\* an entry of history
Event(event, namespace, attempt_, result, requests, update_call, severity) ==
    [event |-> event, namespace |-> namespace, attempt |-> attempt_,
     result |-> result, requests |-> requests, update_call |-> update_call,
     severity |-> severity]

\* line 194: the test for a heartbeat after processed_count was incremented
heartbeat_due_always(processed_count_) == TRUE

heartbeat_due(processed_count_) == processed_count_ % heartbeat_every = 0

\* lines 150-178: what one iteration of the bulk loop does for a managed
\* namespace, in order: the recommendation is computed from the snapshot
\* entry, then the state of the namespace is looked up
iteration_events_lookup_first(entry, response) ==
    << Event("get_namespace_info", entry.namespace, 1,
             get_namespace_info(response).result, <<"GET">>, FALSE, ""),
       Event("decision", entry.namespace, 1,
             recommended_capacity_mode_of(
                 _calculate_recommended_trus(entry.action_limit,
                                             entry.action_count)),
             <<>>, FALSE, "") >>

iteration_events(entry, response) ==
    << Event("decision", entry.namespace, 1,
             recommended_capacity_mode_of(
                 _calculate_recommended_trus(entry.action_limit,
                                             entry.action_count)),
             <<>>, FALSE, ""),
       Event("get_namespace_info", entry.namespace, 1,
             get_namespace_info(response).result, <<"GET">>, FALSE, "") >>

(***************************************************************************)
(* The provisioning activities (activities/provisioning_ops.py) and the   *)
(* update methods of CloudOpsClient they call.  An outcome is a record:    *)
(* result is "true" or "raise", requests are the HTTP requests sent to the *)
(* control plane in order, update_call tells whether the activity went on  *)
(* to the client's update method, and after is the answer the control      *)
(* plane gives for the namespace once the outcome is there.                *)
(***************************************************************************)
\* positional parameters after self of CloudOpsClient.enable_provisioning
enable_provisioning_parameters == 2

\* positional arguments the activity passes to it
enable_provisioning_arguments == 4

\* positional parameters after self of CloudOpsClient.disable_provisioning
disable_provisioning_parameters == 1

\* positional arguments the activity passes to it
disable_provisioning_arguments == 3

\* a Python call binds its positional arguments, or raises TypeError
call_binds(arguments, parameters) == arguments = parameters

\* CloudOpsClient.enable_provisioning: GET for the resourceVersion, then POST
CloudOpsClient_enable_provisioning(response, tru_count) ==
    IF response.http # "ok"
    THEN [result |-> "raise", requests |-> <<"GET">>, after |-> response]
    ELSE [result |-> "true", requests |-> <<"GET", "POST">>,
          after |-> [http |-> "ok", currentValue |-> tru_count]]

\* CloudOpsClient.disable_provisioning: GET, then POST of capacitySpec.onDemand
CloudOpsClient_disable_provisioning(response) ==
    IF response.http # "ok"
    THEN [result |-> "raise", requests |-> <<"GET">>, after |-> response]
    ELSE [result |-> "true", requests |-> <<"GET", "POST">>,
          after |-> [http |-> "ok", currentValue |-> None]]

\* the idempotency test of the activity enable_provisioning
enable_already_done(current_tru_count, tru_count) == current_tru_count = tru_count

\* the idempotency test of the activity disable_provisioning
disable_already_done(current_tru_count) == current_tru_count = None

\* the activity enable_provisioning(namespace, tru_count)
enable_provisioning_no_dry_run(dry_run_mode_, response, tru_count) ==
    IF response.http # "ok"
    THEN [result |-> "raise", requests |-> <<"GET">>, update_call |-> FALSE,
          after |-> response]
    ELSE IF enable_already_done(response.currentValue, tru_count)
    THEN [result |-> "true", requests |-> <<"GET">>, update_call |-> FALSE,
          after |-> response]
    ELSE IF ~call_binds(enable_provisioning_arguments,
                        enable_provisioning_parameters)
    THEN [result |-> "raise", requests |-> <<"GET">>, update_call |-> TRUE,
          after |-> response]
    ELSE LET r == CloudOpsClient_enable_provisioning(response, tru_count)
         IN  [result |-> r.result, requests |-> <<"GET">> \o r.requests,
              update_call |-> TRUE, after |-> r.after]

enable_provisioning(dry_run_mode_, response, tru_count) ==
    IF dry_run_mode_
    THEN [result |-> "true", requests |-> <<>>, update_call |-> FALSE,
          after |-> response]
    ELSE IF response.http # "ok"
    THEN [result |-> "raise", requests |-> <<"GET">>, update_call |-> FALSE,
          after |-> response]
    ELSE IF enable_already_done(response.currentValue, tru_count)
    THEN [result |-> "true", requests |-> <<"GET">>, update_call |-> FALSE,
          after |-> response]
    ELSE IF ~call_binds(enable_provisioning_arguments,
                        enable_provisioning_parameters)
    THEN [result |-> "raise", requests |-> <<"GET">>, update_call |-> TRUE,
          after |-> response]
    ELSE LET r == CloudOpsClient_enable_provisioning(response, tru_count)
         IN  [result |-> r.result, requests |-> <<"GET">> \o r.requests,
              update_call |-> TRUE, after |-> r.after]

\* the activity disable_provisioning(namespace)
disable_provisioning(dry_run_mode_, response) ==
    IF dry_run_mode_
    THEN [result |-> "true", requests |-> <<>>, update_call |-> FALSE,
          after |-> response]
    ELSE IF response.http # "ok"
    THEN [result |-> "raise", requests |-> <<"GET">>, update_call |-> FALSE,
          after |-> response]
    ELSE IF disable_already_done(response.currentValue)
    THEN [result |-> "true", requests |-> <<"GET">>, update_call |-> FALSE,
          after |-> response]
    ELSE IF ~call_binds(disable_provisioning_arguments,
                        disable_provisioning_parameters)
    THEN [result |-> "raise", requests |-> <<"GET">>, update_call |-> TRUE,
          after |-> response]
    ELSE LET r == CloudOpsClient_disable_provisioning(response)
         IN  [result |-> r.result, requests |-> <<"GET">> \o r.requests,
              update_call |-> TRUE, after |-> r.after]

(***************************************************************************)
(* State.                                                                  *)
(***************************************************************************)
VARIABLES
    arg_limit,              \* action_limit passed to _calculate_recommended_trus
    arg_count,              \* action_count passed to _calculate_recommended_trus
    called,                 \* TRUE once _calculate_recommended_trus has returned
    ret,                    \* its return value
    namespace_allowlist,    \* Settings.namespace_allowlist
    namespace_denylist,     \* Settings.namespace_denylist
    capacity,               \* control plane: namespace -> answer of the GET
    metrics_by_namespace,   \* the snapshot, in insertion order
    activity_pc,            \* "start", "loop", "returned" or "raised"
    position,               \* entries of the snapshot consumed by the loop
    recommendations,        \* the list built by the loop
    processed_count,        \* processed_count of the loop
    heartbeats,             \* <<processed, total>> of each activity.heartbeat
    dry_run_mode,           \* Settings.dry_run_mode of the worker
    request,                \* the provisioning activity invoked and its arguments
    invocations,            \* the invocations of it so far, one record each
    wf_input,               \* CapacityManagementInput of the run
    throttling,             \* metrics API: namespace -> answer to check_throttling
    wf_pc,                  \* where CapacityManagementWorkflow.run stands
    wf_loop,                \* "enabled" or "disabled": the loop it is in
    wf_idx,                 \* index of the namespace of that loop it is at
    attempt,                \* number of the attempt of the activity under way
    namespaces,             \* the list list_namespaces returned
    namespaces_enabled,     \* local list of run
    namespaces_disabled,    \* local list of run
    errors,                 \* local list of run
    decisions,              \* self._decisions
    history,                \* activity attempts and decisions, in order
    wf_result,              \* the WorkflowResult returned
    metrics_api,            \* the snapshot the metrics API holds
    bulk_wf_pc,             \* where BulkCapacityAnalysisWorkflow.run stands
    bulk_attempt,           \* number of the attempt of get_all_namespace_metrics
    attempts,               \* the attempts of it that ended without a result
    bulk_result,            \* the list the workflow returned
    sched_input,            \* ScheduledCapacityChangeInput of the run
    sched_flags,            \* the four success flags of that run
    now,                    \* workflow.now() of that run, in minutes
    _manual_trigger_requested  \* the flag trigger_evaluation sets

engine_vars == <<arg_limit, arg_count, called, ret>>

settings_vars == <<namespace_allowlist, namespace_denylist>>

bulk_vars == <<metrics_by_namespace, activity_pc, position, recommendations,
               processed_count, heartbeats>>

prov_vars == <<request, invocations>>

\* the state of CapacityManagementWorkflow.run but for history
cap_rest == <<wf_input, throttling, wf_pc, wf_loop, wf_idx, attempt, namespaces,
              namespaces_enabled, namespaces_disabled, errors, decisions,
              wf_result>>

cap_vars == <<cap_rest, history>>

bulkwf_vars == <<metrics_api, bulk_wf_pc, bulk_attempt, attempts, bulk_result>>

sched_vars == <<sched_input, sched_flags, now>>

signal_vars == <<_manual_trigger_requested>>

\* what the engine and the bulk activity never touch
other_vars == <<dry_run_mode, prov_vars, cap_rest, bulkwf_vars, sched_vars,
               signal_vars>>

vars == <<arg_limit, arg_count, called, ret, namespace_allowlist,
          namespace_denylist, capacity, metrics_by_namespace, activity_pc,
          position, recommendations, processed_count, heartbeats,
          dry_run_mode, request, invocations, wf_input, throttling, wf_pc,
          wf_loop, wf_idx, attempt, namespaces, namespaces_enabled,
          namespaces_disabled, errors, decisions, history, wf_result,
          metrics_api, bulk_wf_pc, bulk_attempt, attempts, bulk_result,
          sched_input, sched_flags, now, _manual_trigger_requested>>

(***************************************************************************)
(* Inputs of the engine: limits at, inside and just below the end of each  *)
(* 500-wide band; loads at every multiple of 100, 1/Scale and 1 next to   *)
(* it, and half way to the next one.                                       *)
(***************************************************************************)
LimitInputs ==
    { (max_aps_per_tru * c) * Scale + d :
        c \in 0..MaxUnits,
        d \in {0, (max_aps_per_tru \div 2) * Scale, max_aps_per_tru * Scale - 1} }

LoadInputs ==
    { x \in { (100 * k) * Scale + d : k \in 0..MaxLoadHundreds,
                                      d \in {-Scale, -1, 0, 1, 50 * Scale} } :
        x >= 0 }

\* the state of the bulk evaluation before the activity is started
BulkIdle ==
    /\ metrics_by_namespace = <<>>
    /\ activity_pc = "start"
    /\ position = 0
    /\ recommendations = <<>>
    /\ processed_count = 0
    /\ heartbeats = <<>>

\* no provisioning activity has been asked for
ProvisioningIdle ==
    /\ request = [kind |-> "none", namespace |-> "", tru_count |-> 0]
    /\ invocations = <<>>

\* CapacityManagementWorkflow is not running
CapacityIdle ==
    /\ wf_input = [default_tru_count |-> 0, min_actions_threshold |-> 0,
                   dry_run |-> FALSE]
    /\ throttling = <<>>
    /\ wf_pc = "idle"
    /\ wf_loop = "enabled"
    /\ wf_idx = 0
    /\ attempt = 1
    /\ namespaces = <<>>
    /\ namespaces_enabled = <<>>
    /\ namespaces_disabled = <<>>
    /\ errors = <<>>
    /\ decisions = <<>>
    /\ history = <<>>
    /\ wf_result = [returned |-> FALSE]
    /\ _manual_trigger_requested = FALSE

\* BulkCapacityAnalysisWorkflow is not running
BulkWorkflowIdle ==
    /\ metrics_api = <<>>
    /\ bulk_wf_pc = "idle"
    /\ bulk_attempt = 1
    /\ attempts = <<>>
    /\ bulk_result = <<>>

\* ScheduledCapacityChangeWorkflow is not running
ScheduledIdle ==
    /\ sched_input = [namespace |-> "", desired_trus |-> 0, end_time |-> FALSE]
    /\ sched_flags = [initial_change_success |-> FALSE,
                      verification_success |-> FALSE,
                      reverted_to_on_demand |-> FALSE,
                      revert_verification_success |-> FALSE]
    /\ now = 0

\* the activity get_all_namespace_metrics is not scheduled
BulkNotScheduled ==
    /\ metrics_by_namespace = <<>>
    /\ activity_pc = "idle"
    /\ position = 0
    /\ recommendations = <<>>
    /\ processed_count = 0
    /\ heartbeats = <<>>

\* the parts of the state that belong to the workflows
OthersIdle ==
    /\ dry_run_mode = FALSE
    /\ ProvisioningIdle
    /\ CapacityIdle
    /\ BulkWorkflowIdle
    /\ ScheduledIdle

InitEngine ==
    /\ arg_limit \in LimitInputs
    /\ arg_count \in LoadInputs
    /\ called = FALSE
    /\ ret = 0
    /\ namespace_allowlist = {}
    /\ namespace_denylist = {}
    /\ capacity = <<>>
    /\ BulkIdle
    /\ OthersIdle

\* one call of _calculate_recommended_trus(arg_limit, arg_count)
Calculate ==
    /\ ~called
    /\ called' = TRUE
    /\ ret' = _calculate_recommended_trus(arg_limit, arg_count)
    /\ UNCHANGED <<arg_limit, arg_count>>
    /\ UNCHANGED <<settings_vars, capacity, bulk_vars, other_vars, history>>

NextEngine == Calculate

SpecEngine == InitEngine /\ [][NextEngine]_vars

(***************************************************************************)
(* Evaluation cycles of one namespace under a constant load: the engine is *)
(* called once per cycle with the limit the metrics report, and between    *)
(* two cycles the recommendation is put in place, so that the next limit   *)
(* is the capacity of the recommended size.  history keeps one record per  *)
(* cycle.                                                                  *)
(***************************************************************************)
\* the number of cycles of one run
MaxCycles == 18

\* lines 234, 244-252: the limit of a namespace of the given size, 500 per
\* unit, and the base capacity of 500 with no unit
action_limit_of(trus) ==
    (IF trus = 0 THEN max_aps_per_tru ELSE max_aps_per_tru * trus) * Scale

\* lines 147-151, 180-185: what one evaluation read and recommended
Evaluation(action_limit, action_count, recommended_trus) ==
    [event |-> "_calculate_recommended_trus", action_limit |-> action_limit,
     action_count |-> action_count, recommended_trus |-> recommended_trus]

\* one cycle: _calculate_recommended_trus(arg_limit, arg_count)
EvaluateCycle ==
    /\ ~called
    /\ Len(history) < MaxCycles
    /\ called' = TRUE
    /\ ret' = _calculate_recommended_trus(arg_limit, arg_count)
    /\ history' = Append(history, Evaluation(arg_limit, arg_count, ret'))
    /\ UNCHANGED <<arg_limit, arg_count>>
    /\ UNCHANGED <<settings_vars, capacity, bulk_vars, other_vars>>

\* the recommendation is put in place before the next cycle, the load stays
ApplyRecommendation ==
    /\ called
    /\ Len(history) < MaxCycles
    /\ called' = FALSE
    /\ arg_limit' = action_limit_of(ret)
    /\ UNCHANGED <<arg_count, ret>>
    /\ UNCHANGED <<settings_vars, capacity, bulk_vars, other_vars, history>>

NextCycles == EvaluateCycle \/ ApplyRecommendation

SpecCycles == InitEngine /\ [][NextCycles]_vars

(***************************************************************************)
(* The bulk evaluation: one run of the activity get_all_namespace_metrics  *)
(* over a snapshot of the metrics API and a state of the control plane.    *)
(***************************************************************************)
NamespaceNames == {"ns1", "ns2"}

\* (action_limit, action_count) pairs of a snapshot entry, in actions/second
SnapshotMetrics ==
    { <<0, 0>>, <<500, 1200>>, <<1000, 300>>, <<1500, 1200>>, <<2500, 200>>,
      <<5000, 600>> }

\* the answers the control plane can give for one namespace
Responses ==
    { [http |-> "404", currentValue |-> None],
      [http |-> "error", currentValue |-> None] }
    \cup { [http |-> "ok", currentValue |-> v] : v \in {None} \cup 0..MaxCpTru }

\* the snapshots: each namespace at most once, in any insertion order
Snapshots ==
    { s \in UNION { [1..n -> [namespace : NamespaceNames,
                              action_limit : { m[1] * Scale : m \in SnapshotMetrics },
                              action_count : { m[2] * Scale : m \in SnapshotMetrics }]]
                    : n \in 0..Cardinality(NamespaceNames) } :
        /\ \A i, j \in DOMAIN s : i # j => s[i].namespace # s[j].namespace
        /\ \A i \in DOMAIN s :
              <<s[i].action_limit, s[i].action_count>>
                  \in { <<m[1] * Scale, m[2] * Scale>> : m \in SnapshotMetrics } }

Init ==
    /\ arg_limit = 0
    /\ arg_count = 0
    /\ called = FALSE
    /\ ret = 0
    /\ namespace_allowlist \in SUBSET NamespaceNames
    /\ namespace_denylist \in SUBSET NamespaceNames
    /\ capacity \in [NamespaceNames -> Responses]
    /\ BulkIdle
    /\ OthersIdle

\* line 131: the single metrics call answers with a snapshot
FetchAllMetrics ==
    /\ activity_pc = "start"
    /\ metrics_by_namespace' \in Snapshots
    /\ activity_pc' = "loop"
    /\ UNCHANGED <<position, recommendations, processed_count, heartbeats>>
    /\ UNCHANGED <<engine_vars, settings_vars, capacity, other_vars, history>>

\* lines 131, 207-209: the metrics call fails and the activity raises
FetchAllMetricsFails ==
    /\ activity_pc = "start"
    /\ activity_pc' = "raised"
    /\ UNCHANGED <<metrics_by_namespace, position, recommendations,
                   processed_count, heartbeats>>
    /\ UNCHANGED <<engine_vars, settings_vars, capacity, other_vars, history>>

\* the new recommendation put in front of the list
record_first(recommendations_, recommendation) ==
    <<recommendation>> \o recommendations_

\* line 186: recommendations.append(recommendation)
record(recommendations_, recommendation) ==
    Append(recommendations_, recommendation)

\* lines 141-198: one iteration of the loop over the snapshot
ProcessNamespace ==
    /\ activity_pc = "loop"
    /\ position < Len(metrics_by_namespace)
    /\ LET entry == metrics_by_namespace[position + 1]
       IN  /\ position' = position + 1
           /\ IF ~should_manage_namespace(namespace_allowlist, namespace_denylist,
                                          entry.namespace)
              THEN UNCHANGED <<recommendations, processed_count, heartbeats,
                               history>>
              ELSE /\ history' =
                        history \o iteration_events(entry, capacity[entry.namespace])
                   /\ recommendations' =
                        record(recommendations,
                               recommendation_for(entry, capacity[entry.namespace]))
                   /\ processed_count' = processed_count + 1
                   /\ heartbeats' =
                        IF heartbeat_due(processed_count + 1)
                        THEN Append(heartbeats,
                                    <<processed_count + 1, Len(metrics_by_namespace)>>)
                        ELSE heartbeats
    /\ UNCHANGED <<metrics_by_namespace, activity_pc>>
    /\ UNCHANGED <<engine_vars, settings_vars, capacity, other_vars>>

\* lines 200-205: the loop is over and the list is returned
ReturnRecommendations ==
    /\ activity_pc = "loop"
    /\ position = Len(metrics_by_namespace)
    /\ activity_pc' = "returned"
    /\ UNCHANGED <<metrics_by_namespace, position, recommendations,
                   processed_count, heartbeats>>
    /\ UNCHANGED <<engine_vars, settings_vars, capacity, other_vars, history>>

Next ==
    \/ FetchAllMetrics
    \/ FetchAllMetricsFails
    \/ ProcessNamespace
    \/ ReturnRecommendations

Spec == Init /\ [][Next]_vars

(***************************************************************************)
(* The provisioning activities on their own: one request, enable or        *)
(* disable, invoked up to MaxInvocations times against one state of the    *)
(* control plane, as the retries of an activity or a repeated decision do. *)
(* An invocation either reports its result or is interrupted after its     *)
(* requests and before it reports.                                         *)
(***************************************************************************)
MaxInvocations == 3

ProvisioningRequests ==
    { [kind |-> "enable", namespace |-> n, tru_count |-> t] :
        n \in NamespaceNames, t \in 1..MaxCpTru }
    \cup { [kind |-> "disable", namespace |-> n, tru_count |-> 0] :
             n \in NamespaceNames }

InitProvisioning ==
    /\ arg_limit = 0
    /\ arg_count = 0
    /\ called = FALSE
    /\ ret = 0
    /\ namespace_allowlist = {}
    /\ namespace_denylist = {}
    /\ capacity \in [NamespaceNames -> Responses]
    /\ BulkNotScheduled
    /\ dry_run_mode \in BOOLEAN
    /\ request \in ProvisioningRequests
    /\ invocations = <<>>
    /\ CapacityIdle
    /\ BulkWorkflowIdle
    /\ ScheduledIdle

\* what one invocation of the requested activity does in the current state
outcome_of(request_, dry_run_mode_, response) ==
    IF request_.kind = "enable"
    THEN enable_provisioning(dry_run_mode_, response, request_.tru_count)
    ELSE disable_provisioning(dry_run_mode_, response)

\* one invocation that runs to its return or its exception
InvokeProvisioning ==
    /\ request.kind # "none"
    /\ Len(invocations) < MaxInvocations
    /\ LET out == outcome_of(request, dry_run_mode, capacity[request.namespace])
       IN  /\ invocations' =
                Append(invocations,
                       [before |-> capacity[request.namespace],
                        result |-> out.result,
                        requests |-> out.requests,
                        update_call |-> out.update_call])
           /\ capacity' = [capacity EXCEPT ![request.namespace] = out.after]
    /\ UNCHANGED <<engine_vars, settings_vars, bulk_vars, dry_run_mode, request,
                   cap_vars, bulkwf_vars, sched_vars, signal_vars>>

\* one invocation whose worker is lost after its requests, before it reports
InvokeInterrupted ==
    /\ request.kind # "none"
    /\ Len(invocations) < MaxInvocations
    /\ LET out == outcome_of(request, dry_run_mode, capacity[request.namespace])
       IN  /\ invocations' =
                Append(invocations,
                       [before |-> capacity[request.namespace],
                        result |-> "interrupted",
                        requests |-> out.requests,
                        update_call |-> out.update_call])
           /\ capacity' = [capacity EXCEPT ![request.namespace] = out.after]
    /\ UNCHANGED <<engine_vars, settings_vars, bulk_vars, dry_run_mode, request,
                   cap_vars, bulkwf_vars, sched_vars, signal_vars>>

NextProvisioning ==
    \/ InvokeProvisioning
    \/ InvokeInterrupted

SpecProvisioning == InitProvisioning /\ [][NextProvisioning]_vars

(***************************************************************************)
(* CapacityManagementWorkflow.run (workflows/capacity_management.py): one  *)
(* step per attempt of an activity, together with the workflow code that   *)
(* runs on its result up to the next activity.  The control plane and the  *)
(* metrics API keep one state through the run.                             *)
(***************************************************************************)
\* RetryPolicy(maximum_attempts=3) of check_throttling and the provisioning
\* activities
maximum_attempts == 3

\* a policy that allows one attempt more
may_retry_once_more(attempt_) == attempt_ <= maximum_attempts

\* an attempt that failed is followed by another one while the policy allows
may_retry(attempt_) == attempt_ < maximum_attempts

\* CapacityManagementInput.min_actions_threshold
min_actions_threshold == 100

\* the order in which the control plane lists the namespaces
NamespaceOrder == <<"ns1", "ns2">>

\* the control plane states of a namespace the run is started with
CapacityResponses ==
    { [http |-> "404", currentValue |-> None],
      [http |-> "error", currentValue |-> None],
      [http |-> "ok", currentValue |-> None],
      [http |-> "ok", currentValue |-> 0],
      [http |-> "ok", currentValue |-> MaxCpTru] }

\* answers of check_throttling for a namespace: the number of attempts that
\* fail before one succeeds, and the metrics of the successful attempt
MetricsAnswers ==
    { [failures |-> 0, actions_per_hour |-> 99, is_throttled |-> FALSE],
      [failures |-> 0, actions_per_hour |-> 100, is_throttled |-> TRUE],
      [failures |-> 1, actions_per_hour |-> 0, is_throttled |-> TRUE],
      [failures |-> maximum_attempts, actions_per_hour |-> 0,
       is_throttled |-> FALSE] }

\* what send_slack_notification can do: post (True), find no webhook
\* configured (False), or raise
NotificationOutcomes == {"true", "false", "raise"}

\* CloudOpsClient.list_namespaces and the filter of the activity
list_namespaces(capacity_, allowlist, denylist) ==
    LET listed == SelectSeq(NamespaceOrder,
                            LAMBDA n : /\ capacity_[n].http # "404"
                                       /\ should_manage_namespace(allowlist, denylist, n))
    IN  [i \in DOMAIN listed |->
            [namespace |-> listed[i],
             provisioning_state |->
                 IF is_provisioned_value(capacity_[listed[i]].currentValue)
                 THEN ProvisioningState_ENABLED
                 ELSE ProvisioningState_DISABLED]]

enabled_namespaces ==
    SelectSeq(namespaces,
              LAMBDA ns : ns.provisioning_state = ProvisioningState_ENABLED)

\* the second loop without the filter of lines 167-170
disabled_namespaces_all == namespaces

\* lines 167-170
disabled_namespaces ==
    SelectSeq(namespaces,
              LAMBDA ns : ns.provisioning_state = ProvisioningState_DISABLED)

\* the namespace the loop is at
current_ns ==
    IF wf_loop = "enabled" THEN enabled_namespaces[wf_idx]
    ELSE disabled_namespaces[wf_idx]

\* the action decided with the threshold itself counted as low usage
decide_action_le(loop, metrics, input) ==
    IF loop = "enabled"
    THEN IF metrics.actions_per_hour <= input.min_actions_threshold
         THEN "disable" ELSE "none"
    ELSE IF metrics.is_throttled THEN "enable" ELSE "none"

\* the action decided from the metrics of a namespace
decide_action(loop, metrics, input) ==
    IF loop = "enabled"
    THEN IF metrics.actions_per_hour < input.min_actions_threshold
         THEN "disable" ELSE "none"
    ELSE IF metrics.is_throttled THEN "enable" ELSE "none"

\* only the latest decision kept
record_decision_latest(decisions_, decision) == <<decision>>

\* lines 119, 144, 200, 226: self._decisions.append(decision)
record_decision(decisions_, decision) == Append(decisions_, decision)

\* where run goes on once the namespace at idx of the loop is finished
next_position(loop, idx, enabled, disabled) ==
    IF loop = "enabled" /\ idx < Len(enabled)
    THEN [pc |-> "check", loop |-> "enabled", idx |-> idx + 1]
    ELSE IF loop = "enabled" /\ Len(disabled) > 0
    THEN [pc |-> "check", loop |-> "disabled", idx |-> 1]
    ELSE IF loop = "disabled" /\ idx < Len(disabled)
    THEN [pc |-> "check", loop |-> "disabled", idx |-> idx + 1]
    ELSE [pc |-> "return", loop |-> "disabled", idx |-> idx]

\* the message of the except clause of a loop
error_message_unnamed(loop, namespace) ==
    [namespace |-> "",
     text |-> IF loop = "enabled" THEN "Error checking for disable"
              ELSE "Error checking for enable"]

error_message(loop, namespace) ==
    [namespace |-> namespace,
     text |-> IF loop = "enabled" THEN "Error checking for disable"
              ELSE "Error checking for enable"]

InitCapacity ==
    /\ arg_limit = 0
    /\ arg_count = 0
    /\ called = FALSE
    /\ ret = 0
    /\ namespace_allowlist = {}
    /\ namespace_denylist \in {{}, {"ns1"}}
    /\ capacity \in [NamespaceNames -> CapacityResponses]
    /\ BulkNotScheduled
    /\ BulkWorkflowIdle
    /\ ScheduledIdle
    /\ dry_run_mode \in BOOLEAN
    /\ ProvisioningIdle
    /\ wf_input \in [default_tru_count : {1, MaxCpTru},
                     min_actions_threshold : {min_actions_threshold},
                     dry_run : BOOLEAN]
    /\ throttling \in [NamespaceNames -> MetricsAnswers]
    /\ wf_pc = "list"
    /\ wf_loop = "enabled"
    /\ wf_idx = 0
    /\ attempt = 1
    /\ namespaces = <<>>
    /\ namespaces_enabled = <<>>
    /\ namespaces_disabled = <<>>
    /\ errors = <<>>
    /\ decisions = <<>>
    /\ history = <<>>
    /\ wf_result = [returned |-> FALSE]
    /\ _manual_trigger_requested = FALSE

\* run moves to the position pos and starts counting attempts afresh
GoTo(pos) ==
    /\ wf_pc' = pos.pc
    /\ wf_loop' = pos.loop
    /\ wf_idx' = pos.idx
    /\ attempt' = 1

\* lines 77-81: list_namespaces returns
ListNamespaces ==
    /\ wf_pc = "list"
    /\ LET result == list_namespaces(capacity, namespace_allowlist,
                                     namespace_denylist)
       IN  /\ namespaces' = result
           /\ history' = Append(history,
                                Event("list_namespaces", "", 1, "returned",
                                      <<"GET">>, FALSE, ""))
           /\ GoTo(next_position(
                     "enabled", 0,
                     SelectSeq(result, LAMBDA ns :
                         ns.provisioning_state = ProvisioningState_ENABLED),
                     SelectSeq(result, LAMBDA ns :
                         ns.provisioning_state = ProvisioningState_DISABLED)))
    /\ UNCHANGED <<wf_input, throttling, namespaces_enabled, namespaces_disabled,
                   errors, decisions, wf_result>>
    /\ UNCHANGED <<engine_vars, settings_vars, capacity, bulk_vars,
                   dry_run_mode, prov_vars, bulkwf_vars, sched_vars,
                   signal_vars>>

\* lines 77-80, 245-248: list_namespaces fails and the outer except clause
\* records the fatal error
ListNamespacesFails ==
    /\ wf_pc = "list"
    /\ history' = Append(history,
                         Event("list_namespaces", "", 1, "raise", <<"GET">>,
                               FALSE, ""))
    /\ errors' = Append(errors, [namespace |-> "",
                                 text |-> "Fatal error in workflow"])
    /\ wf_pc' = "notify_critical"
    /\ UNCHANGED <<wf_input, throttling, wf_loop, wf_idx, attempt, namespaces,
                   namespaces_enabled, namespaces_disabled, decisions, wf_result>>
    /\ UNCHANGED <<engine_vars, settings_vars, capacity, bulk_vars,
                   dry_run_mode, prov_vars, bulkwf_vars, sched_vars,
                   signal_vars>>

\* lines 98-120, 142-151 and 178-201, 223-233: one attempt of
\* check_throttling; on its result the decision is taken and recorded
CheckThrottling ==
    /\ wf_pc = "check"
    /\ LET ns == current_ns
           answer == throttling[ns.namespace]
           action == decide_action(wf_loop, answer, wf_input)
       IN  IF attempt <= answer.failures
           THEN /\ history' = Append(history,
                                     Event("check_throttling", ns.namespace,
                                           attempt, "raise", <<>>, FALSE, ""))
                /\ UNCHANGED <<decisions, wf_loop, wf_idx>>
                /\ IF may_retry(attempt)
                   THEN /\ attempt' = attempt + 1
                        /\ UNCHANGED <<wf_pc, errors>>
                   ELSE /\ attempt' = 1
                        /\ wf_pc' = "notify"
                        /\ errors' = Append(errors,
                                            error_message(wf_loop, ns.namespace))
           ELSE /\ history' =
                     history \o
                     << Event("check_throttling", ns.namespace, attempt,
                              "returned", <<>>, FALSE, ""),
                        Event("decision", ns.namespace, 1, action, <<>>, FALSE,
                              "") >>
                /\ decisions' =
                     record_decision(
                         decisions,
                         [namespace |-> ns.namespace,
                          action |-> action,
                          current_state |-> ns.provisioning_state,
                          tru_count |-> IF action = "enable"
                                        THEN wf_input.default_tru_count
                                        ELSE None])
                /\ UNCHANGED errors
                /\ IF action = "none"
                   THEN GoTo(next_position(wf_loop, wf_idx, enabled_namespaces,
                                           disabled_namespaces))
                   ELSE /\ wf_pc' = "act"
                        /\ attempt' = 1
                        /\ UNCHANGED <<wf_loop, wf_idx>>
    /\ UNCHANGED <<wf_input, throttling, namespaces, namespaces_enabled,
                   namespaces_disabled, wf_result>>
    /\ UNCHANGED <<engine_vars, settings_vars, capacity, bulk_vars,
                   dry_run_mode, prov_vars, bulkwf_vars, sched_vars,
                   signal_vars>>

\* lines 123-134 and 204-216: one attempt of disable_provisioning (first
\* loop) or enable_provisioning (second loop)
ExecuteProvisioning ==
    /\ wf_pc = "act"
    /\ LET ns == current_ns
           kind == IF wf_loop = "enabled" THEN "disable" ELSE "enable"
           out == outcome_of([kind |-> kind, namespace |-> ns.namespace,
                              tru_count |-> wf_input.default_tru_count],
                             dry_run_mode, capacity[ns.namespace])
       IN  /\ history' =
                Append(history,
                       Event(IF kind = "enable" THEN "enable_provisioning"
                             ELSE "disable_provisioning",
                             ns.namespace, attempt, out.result, out.requests,
                             out.update_call, ""))
           /\ capacity' = [capacity EXCEPT ![ns.namespace] = out.after]
           /\ IF out.result = "true"
              THEN /\ namespaces_enabled' =
                        IF kind = "enable"
                        THEN Append(namespaces_enabled, ns.namespace)
                        ELSE namespaces_enabled
                   /\ namespaces_disabled' =
                        IF kind = "disable"
                        THEN Append(namespaces_disabled, ns.namespace)
                        ELSE namespaces_disabled
                   /\ UNCHANGED errors
                   /\ GoTo(next_position(wf_loop, wf_idx, enabled_namespaces,
                                         disabled_namespaces))
              ELSE /\ UNCHANGED <<namespaces_enabled, namespaces_disabled,
                                  wf_loop, wf_idx>>
                   /\ IF may_retry(attempt)
                      THEN /\ attempt' = attempt + 1
                           /\ UNCHANGED <<wf_pc, errors>>
                      ELSE /\ attempt' = 1
                           /\ wf_pc' = "notify"
                           /\ errors' = Append(errors,
                                               error_message(wf_loop, ns.namespace))
    /\ UNCHANGED <<wf_input, throttling, namespaces, decisions, wf_result>>
    /\ UNCHANGED <<engine_vars, settings_vars, bulk_vars, dry_run_mode, prov_vars,
                   bulkwf_vars, sched_vars, signal_vars>>

\* what the workflow keeps of a notification that did not succeed
errors_after_notification_recorded(errors_, outcome) ==
    IF outcome = "true" THEN errors_
    ELSE Append(errors_, [namespace |-> "", text |-> "Failed to send notification"])

errors_after_notification(errors_, outcome) == errors_

\* lines 152-161 and 234-243: the notification of a namespace's error
NotifyError ==
    /\ wf_pc = "notify"
    /\ \E outcome \in NotificationOutcomes :
          /\ history' = Append(history,
                               Event("send_slack_notification",
                                     current_ns.namespace, 1, outcome, <<>>,
                                     FALSE, "error"))
          /\ errors' = errors_after_notification(errors, outcome)
    /\ GoTo(next_position(wf_loop, wf_idx, enabled_namespaces, disabled_namespaces))
    /\ UNCHANGED <<wf_input, throttling, namespaces, namespaces_enabled,
                   namespaces_disabled, decisions, wf_result>>
    /\ UNCHANGED <<engine_vars, settings_vars, capacity, bulk_vars,
                   dry_run_mode, prov_vars, bulkwf_vars, sched_vars,
                   signal_vars>>

\* lines 250-259: the notification of the fatal error
NotifyCritical ==
    /\ wf_pc = "notify_critical"
    /\ \E outcome \in NotificationOutcomes :
          /\ history' = Append(history,
                               Event("send_slack_notification", "", 1, outcome,
                                     <<>>, FALSE, "critical"))
          /\ errors' = errors_after_notification(errors, outcome)
    /\ wf_pc' = "return"
    /\ UNCHANGED <<wf_input, throttling, wf_loop, wf_idx, attempt, namespaces,
                   namespaces_enabled, namespaces_disabled, decisions, wf_result>>
    /\ UNCHANGED <<engine_vars, settings_vars, capacity, bulk_vars,
                   dry_run_mode, prov_vars, bulkwf_vars, sched_vars,
                   signal_vars>>

\* lines 261-272: the result is built and returned
BuildResult ==
    /\ wf_pc = "return"
    /\ wf_result' = [returned |-> TRUE,
                     total_namespaces_checked |-> Len(namespaces),
                     namespaces_enabled |-> namespaces_enabled,
                     namespaces_disabled |-> namespaces_disabled,
                     errors |-> errors,
                     decisions |-> decisions,
                     dry_run |-> wf_input.dry_run]
    /\ wf_pc' = "done"
    /\ UNCHANGED <<wf_input, throttling, wf_loop, wf_idx, attempt, namespaces,
                   namespaces_enabled, namespaces_disabled, errors, decisions,
                   history>>
    /\ UNCHANGED <<engine_vars, settings_vars, capacity, bulk_vars,
                   dry_run_mode, prov_vars, bulkwf_vars, sched_vars,
                   signal_vars>>

NextCapacity ==
    \/ ListNamespaces
    \/ ListNamespacesFails
    \/ CheckThrottling
    \/ ExecuteProvisioning
    \/ NotifyError
    \/ NotifyCritical
    \/ BuildResult

SpecCapacity == InitCapacity /\ [][NextCapacity]_vars

(***************************************************************************)
(* The same run with the signal trigger_evaluation: the signal can be      *)
(* delivered once, at any time before run returns.                         *)
(***************************************************************************)
\* lines 274-282: the handler of the signal trigger_evaluation
TriggerEvaluation ==
    /\ wf_pc \in {"list", "check", "act", "notify", "notify_critical", "return"}
    /\ ~_manual_trigger_requested
    /\ _manual_trigger_requested' = TRUE
    /\ history' = Append(history,
                         Event("trigger_evaluation", "", 1, "delivered", <<>>,
                               FALSE, ""))
    /\ UNCHANGED cap_rest
    /\ UNCHANGED <<engine_vars, settings_vars, capacity, bulk_vars,
                   dry_run_mode, prov_vars, bulkwf_vars, sched_vars>>

NextSignalled ==
    \/ NextCapacity
    \/ TriggerEvaluation

SpecSignalled == InitCapacity /\ [][NextSignalled]_vars

(***************************************************************************)
(* The same run when the workflow is cancelled between two namespaces.     *)
(* run has no handler for the cancellation: it reaches run as an exception *)
(* of the await it is at, the check_throttling of the next namespace.      *)
(* That exception is either a CancelledError, which is not an Exception    *)
(* and leaves run through both of its except clauses, or the failure of    *)
(* the cancelled activity, which the except clause of the loop catches.    *)
(***************************************************************************)
\* lines 284-291: the query preview_actions
preview_actions == decisions

\* run is about to check a namespace that is not the first one of the run
BetweenNamespaces ==
    /\ wf_pc = "check"
    /\ attempt = 1
    /\ \/ wf_idx >= 2
       \/ wf_loop = "disabled" /\ enabled_namespaces # <<>>
    /\ \A i \in DOMAIN history : history[i].result # "cancelled"

\* lines 98-107, 178-187: the await is left by a CancelledError; no except
\* clause of run applies and lines 261-272 are not reached
CancelPropagates ==
    /\ BetweenNamespaces
    /\ history' = Append(history,
                         Event("check_throttling", current_ns.namespace, attempt,
                               "cancelled", <<>>, FALSE, ""))
    /\ wf_pc' = "cancelled"
    /\ UNCHANGED <<wf_input, throttling, wf_loop, wf_idx, attempt, namespaces,
                   namespaces_enabled, namespaces_disabled, errors, decisions,
                   wf_result>>
    /\ UNCHANGED <<engine_vars, settings_vars, capacity, bulk_vars,
                   dry_run_mode, prov_vars, bulkwf_vars, sched_vars,
                   signal_vars>>

\* lines 142-151, 223-233: the await is left by the failure of the cancelled
\* activity, which the except clause of the loop records as an error of
\* the namespace
CancelCaught ==
    /\ BetweenNamespaces
    /\ history' = Append(history,
                         Event("check_throttling", current_ns.namespace, attempt,
                               "cancelled", <<>>, FALSE, ""))
    /\ errors' = Append(errors, error_message(wf_loop, current_ns.namespace))
    /\ wf_pc' = "notify"
    /\ UNCHANGED <<wf_input, throttling, wf_loop, wf_idx, attempt, namespaces,
                   namespaces_enabled, namespaces_disabled, decisions,
                   wf_result>>
    /\ UNCHANGED <<engine_vars, settings_vars, capacity, bulk_vars,
                   dry_run_mode, prov_vars, bulkwf_vars, sched_vars,
                   signal_vars>>

NextCancelled ==
    \/ NextCapacity
    \/ CancelPropagates
    \/ CancelCaught

SpecCancelled == InitCapacity /\ [][NextCancelled]_vars

(***************************************************************************)
(* BulkCapacityAnalysisWorkflow.run (workflows/bulk_capacity_analysis.py): *)
(* the activity get_all_namespace_metrics under its retry policy, over a   *)
(* snapshot long enough for heartbeats.  An attempt can end by the return  *)
(* of the list, by the exception of the metrics call, or by the loss of    *)
(* its worker or a timeout in the middle of the loop.                      *)
(***************************************************************************)
MaxSnapshot == 11

\* the namespaces of the metrics API, in the insertion order of its answer
TenantOrder ==
    <<"t01", "t02", "t03", "t04", "t05", "t06", "t07", "t08", "t09", "t10",
      "t11", "t12", "t13">>

TenantNames == { TenantOrder[i] : i \in 1..Len(TenantOrder) }

\* snapshots of the first n namespaces, each with limit 2500 and load 200
LongSnapshots ==
    { [i \in 1..n |-> [namespace |-> TenantOrder[i],
                       action_limit |-> 2500 * Scale,
                       action_count |-> 200 * Scale]] :
        n \in 0..MaxSnapshot }

InitBulkWorkflow ==
    /\ arg_limit = 0
    /\ arg_count = 0
    /\ called = FALSE
    /\ ret = 0
    /\ namespace_allowlist = {}
    /\ namespace_denylist \in {{}, {"t02", "t07"}}
    /\ \E r \in { [http |-> "ok", currentValue |-> MaxCpTru],
                  [http |-> "error", currentValue |-> None] } :
          capacity = [n \in TenantNames |-> r]
    /\ BulkIdle
    /\ dry_run_mode = FALSE
    /\ ProvisioningIdle
    /\ CapacityIdle
    /\ ScheduledIdle
    /\ metrics_api \in LongSnapshots
    /\ bulk_wf_pc = "running"
    /\ bulk_attempt = 1
    /\ attempts = <<>>
    /\ bulk_result = <<>>

\* namespace_ops.py line 131: the metrics call answers with the snapshot
FetchSnapshot ==
    /\ bulk_wf_pc = "running"
    /\ activity_pc = "start"
    /\ metrics_by_namespace' = metrics_api
    /\ activity_pc' = "loop"
    /\ UNCHANGED <<position, recommendations, processed_count, heartbeats>>
    /\ UNCHANGED <<engine_vars, settings_vars, capacity, other_vars, history>>

\* the attempt is lost in the middle of the loop (worker lost, heartbeat or
\* start-to-close timeout)
InterruptActivity ==
    /\ bulk_wf_pc = "running"
    /\ activity_pc = "loop"
    /\ activity_pc' = "interrupted"
    /\ UNCHANGED <<metrics_by_namespace, position, recommendations,
                   processed_count, heartbeats>>
    /\ UNCHANGED <<engine_vars, settings_vars, capacity, other_vars, history>>

\* what the workflow keeps of an attempt that ended without a result
attempt_record ==
    [outcome |-> activity_pc,
     processed |-> [i \in DOMAIN recommendations |-> recommendations[i].namespace],
     heartbeats |-> heartbeats]

\* namespace_ops.py lines 138-141: where the loop of a new attempt starts,
\* given the heartbeats of the attempt before
retry_position_resume(heartbeats_) ==
    IF heartbeats_ = <<>> THEN 0 ELSE heartbeats_[Len(heartbeats_)][1]

retry_position(heartbeats_) == 0

\* bulk_capacity_analysis.py lines 44-49: the failed attempt is retried
RetryActivity ==
    /\ bulk_wf_pc = "running"
    /\ activity_pc \in {"raised", "interrupted"}
    /\ may_retry(bulk_attempt)
    /\ bulk_attempt' = bulk_attempt + 1
    /\ attempts' = Append(attempts, attempt_record)
    /\ metrics_by_namespace' = <<>>
    /\ activity_pc' = "start"
    /\ position' = retry_position(heartbeats)
    /\ recommendations' = <<>>
    /\ processed_count' = retry_position(heartbeats)
    /\ heartbeats' = <<>>
    /\ UNCHANGED <<metrics_api, bulk_wf_pc, bulk_result>>
    /\ UNCHANGED <<engine_vars, settings_vars, capacity, dry_run_mode, prov_vars,
                   cap_vars, sched_vars, signal_vars>>

\* bulk_capacity_analysis.py lines 40-60: the activity returned its list
WorkflowReturns ==
    /\ bulk_wf_pc = "running"
    /\ activity_pc = "returned"
    /\ bulk_result' = recommendations
    /\ bulk_wf_pc' = "returned"
    /\ UNCHANGED <<metrics_api, bulk_attempt, attempts>>
    /\ UNCHANGED <<engine_vars, settings_vars, capacity, bulk_vars, dry_run_mode,
                   prov_vars, cap_vars, sched_vars, signal_vars>>

\* bulk_capacity_analysis.py lines 62-65: the last attempt failed; the
\* exception is logged and raised again
WorkflowRaises ==
    /\ bulk_wf_pc = "running"
    /\ activity_pc \in {"raised", "interrupted"}
    /\ ~may_retry(bulk_attempt)
    /\ attempts' = Append(attempts, attempt_record)
    /\ bulk_wf_pc' = "raised"
    /\ UNCHANGED <<metrics_api, bulk_attempt, bulk_result>>
    /\ UNCHANGED <<engine_vars, settings_vars, capacity, bulk_vars, dry_run_mode,
                   prov_vars, cap_vars, sched_vars, signal_vars>>

NextBulkWorkflow ==
    \/ FetchSnapshot
    \/ FetchAllMetricsFails
    \/ ProcessNamespace
    \/ ReturnRecommendations
    \/ InterruptActivity
    \/ RetryActivity
    \/ WorkflowReturns
    \/ WorkflowRaises

SpecBulkWorkflow == InitBulkWorkflow /\ [][NextBulkWorkflow]_vars

(***************************************************************************)
(* ScheduledCapacityChangeWorkflow.run                                     *)
(* (workflows/scheduled_capacity_change.py): enable, wait, verify, and     *)
(* with an end time wait, revert, wait and verify again.  The provisioning *)
(* activities run attempt by attempt; a verification is one step, which    *)
(* records the number of the attempt that ended it; the notification       *)
(* answers as its environment makes it.                                    *)
(***************************************************************************)
\* what the workflow sees of verify_namespace_capacity: the value the
\* activity returned, or the failure of its last attempt
VerificationOutcomes == {"true", "false", "raise"}

\* lines 117-122, 244-249: the attempts before the one numbered last raised
\* and were retried; the invocation ends with a value returned by that
\* attempt, or with its failure when the policy allows no other attempt
ends_invocation(outcome, last) ==
    outcome = "raise" => ~may_retry(last)

\* the answers of the control plane for the namespace of a scheduled change
ScheduledResponses ==
    CapacityResponses \cup {[http |-> "ok", currentValue |-> 1]}

\* workflow.now() when run starts, in minutes
StartTime == 4

\* timedelta(minutes=2) of the waits before the two verifications
verification_wait == 2

\* the end times of the input: before the start, at and one minute after the
\* earliest time the verification can end, and later
EndTimes ==
    { StartTime - 1, StartTime + verification_wait,
      StartTime + verification_wait + 1, StartTime + verification_wait + 3 }

\* the minutes a verification can take
VerificationMinutes == {0, 1}

InitScheduled ==
    /\ arg_limit = 0
    /\ arg_count = 0
    /\ called = FALSE
    /\ ret = 0
    /\ namespace_allowlist = {}
    /\ namespace_denylist = {}
    /\ \E r \in ScheduledResponses :
          capacity = [n \in NamespaceNames |->
                         IF n = "ns1" THEN r
                         ELSE [http |-> "ok", currentValue |-> None]]
    /\ BulkNotScheduled
    /\ BulkWorkflowIdle
    /\ dry_run_mode \in BOOLEAN
    /\ ProvisioningIdle
    /\ wf_input = [default_tru_count |-> 0, min_actions_threshold |-> 0,
                   dry_run |-> FALSE]
    /\ throttling = <<>>
    /\ wf_pc = "s_enable"
    /\ wf_loop = "enabled"
    /\ wf_idx = 0
    /\ attempt = 1
    /\ namespaces = <<>>
    /\ namespaces_enabled = <<>>
    /\ namespaces_disabled = <<>>
    /\ errors = <<>>
    /\ decisions = <<>>
    /\ history = <<>>
    /\ wf_result = [returned |-> FALSE]
    /\ _manual_trigger_requested = FALSE
    /\ sched_input \in [namespace : {"ns1"}, desired_trus : {1, MaxCpTru},
                        end_time : {None} \cup EndTimes]
    /\ sched_flags = [initial_change_success |-> FALSE,
                      verification_success |-> FALSE,
                      reverted_to_on_demand |-> FALSE,
                      revert_verification_success |-> FALSE]
    /\ now = StartTime

\* what the scheduled workflow leaves alone in every step
sched_frame ==
    <<engine_vars, settings_vars, bulk_vars, dry_run_mode, prov_vars,
      bulkwf_vars, wf_input, throttling, wf_loop, wf_idx, namespaces,
      namespaces_enabled, namespaces_disabled, decisions, sched_input,
      signal_vars>>

\* the revert scheduled whenever an end_time was given
after_verification_unverified(input, verification_success, current_time) ==
    IF input.end_time # None
    THEN IF input.end_time > current_time THEN "s_sleep_end" ELSE "s_disable"
    ELSE "s_return"

\* lines 167-186: where run goes after the verification step, at the time
\* current_time = workflow.now()
after_verification(input, verification_success, current_time) ==
    IF input.end_time # None /\ verification_success
    THEN IF input.end_time > current_time THEN "s_sleep_end" ELSE "s_disable"
    ELSE "s_return"

\* run going on to the verification after the notification of a failed
\* enable
after_notification_no_early_return(pc, input, flags, current_time) ==
    IF pc = "s_notify_enable" THEN "s_sleep_verify"
    ELSE IF pc = "s_notify_revert" THEN "s_return"
    ELSE IF pc = "s_notify_verify"
    THEN after_verification(input, flags.verification_success, current_time)
    ELSE "s_return"

\* the revert going ahead after the notification of a failed verification
after_notification_revert_anyway(pc, input, flags, current_time) ==
    IF pc \in {"s_notify_enable", "s_notify_revert"} THEN "s_return"
    ELSE IF pc = "s_notify_verify"
    THEN after_verification(input, TRUE, current_time)
    ELSE "s_return"

\* where run goes after a notification sent at pc
after_notification(pc, input, flags, current_time) ==
    IF pc \in {"s_notify_enable", "s_notify_revert"} THEN "s_return"
    ELSE IF pc = "s_notify_verify"
    THEN after_verification(input, flags.verification_success, current_time)
    ELSE "s_return"

\* the severity of the notification sent at pc
severity_at(pc, flags) ==
    IF pc \in {"s_notify_enable", "s_notify_revert"} THEN "critical"
    ELSE IF pc = "s_notify_revert_verify" /\ flags.revert_verification_success
    THEN "info"
    ELSE "error"

\* lines 64-101: one attempt of enable_provisioning
SchedEnable ==
    /\ wf_pc = "s_enable"
    /\ LET out == enable_provisioning(dry_run_mode, capacity[sched_input.namespace],
                                      sched_input.desired_trus)
       IN  /\ history' = Append(history,
                                Event("enable_provisioning", sched_input.namespace,
                                      attempt, out.result, out.requests,
                                      out.update_call, ""))
           /\ capacity' = [capacity EXCEPT ![sched_input.namespace] = out.after]
           /\ IF out.result = "true"
              THEN /\ sched_flags' = [sched_flags EXCEPT
                                         !.initial_change_success = TRUE]
                   /\ wf_pc' = "s_sleep_verify"
                   /\ attempt' = 1
                   /\ UNCHANGED errors
              ELSE /\ UNCHANGED sched_flags
                   /\ IF may_retry(attempt)
                      THEN /\ attempt' = attempt + 1
                           /\ UNCHANGED <<wf_pc, errors>>
                      ELSE /\ attempt' = 1
                           /\ wf_pc' = "s_notify_enable"
                           /\ errors' = Append(errors,
                                   [namespace |-> sched_input.namespace,
                                    text |-> "Failed to enable provisioning"])
    /\ UNCHANGED <<wf_result, now>>
    /\ UNCHANGED sched_frame

\* a wait that ends as soon as it has begun
sleep_duration_none(end_time, current_time) == 0

\* line 177: sleep_duration = input.end_time - current_time
sleep_duration(end_time, current_time) == end_time - current_time

\* lines 105, 176-183, 233: workflow.sleep
SchedSleep ==
    /\ wf_pc \in {"s_sleep_verify", "s_sleep_end", "s_sleep_revert"}
    /\ now' = IF wf_pc = "s_sleep_end"
              THEN now + sleep_duration(sched_input.end_time, now)
              ELSE now + verification_wait
    /\ wf_pc' = IF wf_pc = "s_sleep_verify" THEN "s_verify"
                ELSE IF wf_pc = "s_sleep_end" THEN "s_disable"
                ELSE "s_verify_revert"
    /\ UNCHANGED <<capacity, attempt, errors, history, wf_result, sched_flags>>
    /\ UNCHANGED sched_frame

\* while run sleeps the control plane comes to answer differently for the
\* namespace: it fails or recovers, or somebody else changes the capacity
ControlPlaneChanges ==
    /\ wf_pc \in {"s_sleep_verify", "s_sleep_end", "s_sleep_revert"}
    /\ \E r \in ScheduledResponses :
          /\ r # capacity[sched_input.namespace]
          /\ capacity' = [capacity EXCEPT ![sched_input.namespace] = r]
    /\ UNCHANGED <<wf_pc, attempt, errors, history, wf_result, sched_flags, now>>
    /\ UNCHANGED sched_frame

\* lines 112-165: verify_namespace_capacity(namespace, "provisioned", trus)
SchedVerify ==
    /\ wf_pc = "s_verify"
    /\ \E elapsed \in VerificationMinutes : now' = now + elapsed
    /\ \E outcome \in VerificationOutcomes, last \in 1..maximum_attempts :
          /\ ends_invocation(outcome, last)
          /\ history' = Append(history,
                               Event("verify_namespace_capacity",
                                     sched_input.namespace, last, outcome,
                                     <<"GET">>, FALSE, ""))
          /\ sched_flags' = [sched_flags EXCEPT
                                !.verification_success = (outcome = "true")]
          /\ IF outcome = "true"
             THEN /\ UNCHANGED errors
                  /\ wf_pc' = after_verification(sched_input, TRUE, now')
             ELSE /\ errors' = Append(errors,
                          [namespace |-> sched_input.namespace,
                           text |-> IF outcome = "false"
                                    THEN "Verification failed"
                                    ELSE "Failed to verify capacity"])
                  /\ wf_pc' = "s_notify_verify"
    /\ UNCHANGED <<capacity, attempt, wf_result>>
    /\ UNCHANGED sched_frame

\* lines 188-229: one attempt of disable_provisioning
SchedDisable ==
    /\ wf_pc = "s_disable"
    /\ LET out == disable_provisioning(dry_run_mode, capacity[sched_input.namespace])
       IN  /\ history' = Append(history,
                                Event("disable_provisioning", sched_input.namespace,
                                      attempt, out.result, out.requests,
                                      out.update_call, ""))
           /\ capacity' = [capacity EXCEPT ![sched_input.namespace] = out.after]
           /\ IF out.result = "true"
              THEN /\ sched_flags' = [sched_flags EXCEPT
                                         !.reverted_to_on_demand = TRUE]
                   /\ wf_pc' = "s_sleep_revert"
                   /\ attempt' = 1
                   /\ UNCHANGED errors
              ELSE /\ UNCHANGED sched_flags
                   /\ IF may_retry(attempt)
                      THEN /\ attempt' = attempt + 1
                           /\ UNCHANGED <<wf_pc, errors>>
                      ELSE /\ attempt' = 1
                           /\ wf_pc' = "s_notify_revert"
                           /\ errors' = Append(errors,
                                   [namespace |-> sched_input.namespace,
                                    text |-> "Failed to revert to on-demand"])
    /\ UNCHANGED <<wf_result, now>>
    /\ UNCHANGED sched_frame

\* a revert verification that returned false leaving no error behind
errors_after_revert_verification_silent(errors_, namespace, outcome) ==
    IF outcome \in {"true", "false"} THEN errors_
    ELSE Append(errors_, [namespace |-> namespace,
                          text |-> "Failed to verify revert"])

\* lines 266-269, 285-288: the error recorded for a revert verification that
\* returned false or raised
errors_after_revert_verification(errors_, namespace, outcome) ==
    IF outcome = "true" THEN errors_
    ELSE Append(errors_, [namespace |-> namespace,
                          text |-> IF outcome = "false"
                                   THEN "Revert verification failed"
                                   ELSE "Failed to verify revert"])

\* lines 238-299: verify_namespace_capacity(namespace, "on-demand", 0)
SchedVerifyRevert ==
    /\ wf_pc = "s_verify_revert"
    /\ \E outcome \in VerificationOutcomes, last \in 1..maximum_attempts :
          /\ ends_invocation(outcome, last)
          /\ history' = Append(history,
                               Event("verify_namespace_capacity",
                                     sched_input.namespace, last, outcome,
                                     <<"GET">>, FALSE, ""))
          /\ sched_flags' = [sched_flags EXCEPT
                                !.revert_verification_success = (outcome = "true")]
          /\ errors' = errors_after_revert_verification(
                           errors, sched_input.namespace, outcome)
    /\ wf_pc' = "s_notify_revert_verify"
    /\ UNCHANGED <<capacity, attempt, wf_result, now>>
    /\ UNCHANGED sched_frame

\* lines 85-94, 137-165, 211-220, 256-299: send_slack_notification inside
\* its own try/except
SchedNotify ==
    /\ wf_pc \in {"s_notify_enable", "s_notify_verify", "s_notify_revert",
                  "s_notify_revert_verify"}
    /\ \E outcome \in NotificationOutcomes :
          /\ history' = Append(history,
                               Event("send_slack_notification",
                                     sched_input.namespace, 1, outcome, <<>>,
                                     FALSE, severity_at(wf_pc, sched_flags)))
          /\ errors' = errors_after_notification(errors, outcome)
    /\ wf_pc' = after_notification(wf_pc, sched_input, sched_flags, now)
    /\ UNCHANGED <<capacity, attempt, wf_result, sched_flags, now>>
    /\ UNCHANGED sched_frame

\* lines 96-101, 222-229, 301-312: the result is built and returned
SchedReturn ==
    /\ wf_pc = "s_return"
    /\ wf_result' = [returned |-> TRUE,
                     namespace |-> sched_input.namespace,
                     initial_change_success |-> sched_flags.initial_change_success,
                     verification_success |-> sched_flags.verification_success,
                     reverted_to_on_demand |-> sched_flags.reverted_to_on_demand,
                     revert_verification_success |->
                         sched_flags.revert_verification_success,
                     errors |-> errors]
    /\ wf_pc' = "done"
    /\ UNCHANGED <<capacity, attempt, errors, history, sched_flags, now>>
    /\ UNCHANGED sched_frame

NextScheduled ==
    \/ SchedEnable
    \/ SchedSleep
    \/ ControlPlaneChanges
    \/ SchedVerify
    \/ SchedDisable
    \/ SchedVerifyRevert
    \/ SchedNotify
    \/ SchedReturn

SpecScheduled == InitScheduled /\ [][NextScheduled]_vars

\* The same runs when the workflow is not left waiting for ever: every
\* activity of run ends by its start_to_close_timeout and its attempts, every
\* timer fires, and the workflow task that follows is executed.
SpecScheduledFair ==
    /\ InitScheduled
    /\ [][NextScheduled]_vars
    /\ WF_vars(SchedEnable) /\ WF_vars(SchedSleep) /\ WF_vars(SchedVerify)
    /\ WF_vars(SchedDisable) /\ WF_vars(SchedVerifyRevert)
    /\ WF_vars(SchedNotify) /\ WF_vars(SchedReturn)

(***************************************************************************)
(* The three workflows side by side: a behaviour is one run of one of      *)
(* them.                                                                   *)
(***************************************************************************)
InitWorkflows ==
    \/ InitCapacity
    \/ InitBulkWorkflow
    \/ InitScheduled

NextWorkflows ==
    \/ NextCapacity
    \/ NextBulkWorkflow
    \/ NextScheduled

SpecWorkflows == InitWorkflows /\ [][NextWorkflows]_vars

(***************************************************************************)
(* The two places that filter namespaces, under every allowlist and        *)
(* denylist: a behaviour is one bulk evaluation or one capacity-management *)
(* run.                                                                    *)
(***************************************************************************)
\* a capacity-management run under any allowlist and denylist
InitListing ==
    /\ arg_limit = 0
    /\ arg_count = 0
    /\ called = FALSE
    /\ ret = 0
    /\ namespace_allowlist \in SUBSET NamespaceNames
    /\ namespace_denylist \in SUBSET NamespaceNames
    /\ capacity \in [NamespaceNames -> CapacityResponses]
    /\ BulkNotScheduled
    /\ BulkWorkflowIdle
    /\ ScheduledIdle
    /\ dry_run_mode = TRUE
    /\ ProvisioningIdle
    /\ wf_input = [default_tru_count |-> 1,
                   min_actions_threshold |-> min_actions_threshold,
                   dry_run |-> TRUE]
    /\ throttling \in [NamespaceNames -> MetricsAnswers]
    /\ wf_pc = "list"
    /\ wf_loop = "enabled"
    /\ wf_idx = 0
    /\ attempt = 1
    /\ namespaces = <<>>
    /\ namespaces_enabled = <<>>
    /\ namespaces_disabled = <<>>
    /\ errors = <<>>
    /\ decisions = <<>>
    /\ history = <<>>
    /\ wf_result = [returned |-> FALSE]
    /\ _manual_trigger_requested = FALSE

InitFiltering ==
    \/ Init
    \/ InitListing

NextFiltering ==
    \/ Next
    \/ NextCapacity

SpecFiltering == InitFiltering /\ [][NextFiltering]_vars

(***************************************************************************)
(* Properties of the recommendation engine, checked under SpecEngine.      *)
(* The values of the claims are written out here in actions per second     *)
(* times Scale, independently of the definitions of the engine.            *)
(***************************************************************************)
\* floor(limit / 500) of the call's limit
LimitUnits == arg_limit \div (500 * Scale)

\* the call's load is at or above 80% of 500 * LimitUnits
AtOrAboveEighty == arg_count * 100 >= 80 * (500 * LimitUnits) * Scale

\* the call's load is below the minimum charged load (LimitUnits - 1) * 100
BelowMinCharged == arg_count < ((LimitUnits - 1) * 100) * Scale

\* floor(load / 100) + 1, the optimum computed by the scale-down branch
ComputedOptimum == (arg_count \div (100 * Scale)) + 1

\* C1: for every limit >= 0 and load >= 0 the engine never returns 1: the
\* result is 0 or an integer >= 2.
C1_NeverOne ==
    called => (ret = 0 \/ ret >= 2)

C1_Witness ==
    called /\ arg_limit = 500 * Scale /\ arg_count = 750 * Scale /\ ret = 2

\* C2: on the base tier (floor(limit/500) <= 1) with load > 500 the
\* recommendation is max(2, ceil(load/500)).
C2_JumpToProvisioned ==
    (called /\ LimitUnits <= 1 /\ arg_count > 500 * Scale)
        => LET ceil == (arg_count + 500 * Scale - 1) \div (500 * Scale)
           IN  ret = IF ceil >= 2 THEN ceil ELSE 2

C2_Witness ==
    called /\ arg_limit = 500 * Scale /\ arg_count = 1200 * Scale /\ ret = 3

\* C3: on the base tier (floor(limit/500) <= 1) every load <= 500, the
\* boundary 500 included, is answered with 0.
C3_StayOnBaseTier ==
    (called /\ LimitUnits <= 1 /\ arg_count <= 500 * Scale) => ret = 0

C3_Witness ==
    called /\ arg_limit = 750 * Scale /\ arg_count = 500 * Scale /\ ret = 0

\* C4: provisioned with c >= 2 units and load >= 80% of 500*c (exactly 80%
\* included), the recommendation is exactly c + 1, however high the load.
C4_ScaleUpOneStep ==
    (called /\ LimitUnits >= 2 /\ AtOrAboveEighty) => ret = LimitUnits + 1

C4_Witness ==
    called /\ arg_limit = 1000 * Scale /\ arg_count = 2500 * Scale /\ ret = 3

\* C5: provisioned with c >= 2 units, load below 80% of 500*c and at or
\* above (c-1)*100, the recommendation is c; a load equal to (c-1)*100 is
\* no change and a load exactly at 80% is a scale-up.
C5_EfficientZone ==
    /\ (called /\ LimitUnits >= 2 /\ ~AtOrAboveEighty /\ ~BelowMinCharged)
           => ret = LimitUnits
    /\ (called /\ LimitUnits >= 2
               /\ arg_count * 100 = 80 * (500 * LimitUnits) * Scale)
           => ret = LimitUnits + 1

C5_Witness ==
    called /\ arg_limit = 2500 * Scale /\ arg_count = 400 * Scale /\ ret = 5

C9_ModeIffZeroUnits ==
    \A i \in DOMAIN recommendations :
        LET r == recommendations[i]
        IN  /\ r.recommended_capacity_mode \in {"on-demand", "provisioned"}
            /\ r.recommended_capacity_mode = "on-demand" <=> r.recommended_trus = 0

C9_Witness ==
    /\ activity_pc = "returned"
    /\ \E i, j \in DOMAIN recommendations :
          /\ recommendations[i].recommended_trus = 0
          /\ recommendations[i].recommended_capacity_mode = "on-demand"
          /\ recommendations[j].recommended_trus = 2
          /\ recommendations[j].recommended_capacity_mode = "provisioned"

\* C10 as stated: in every recommendation record a mode of provisioned
\* carries a unit count >= 2 and a mode of on-demand carries no unit count,
\* for the current state as well as for the recommended state.
C10_ProvisionedAtLeastTwo ==
    \A i \in DOMAIN recommendations :
        LET r == recommendations[i]
        IN  /\ r.current_capacity_mode = "provisioned"
                => (r.current_trus # None /\ r.current_trus >= 2)
            /\ r.current_capacity_mode = "on-demand" => r.current_trus = None
            /\ r.recommended_capacity_mode = "provisioned"
                => r.recommended_trus >= 2
            /\ r.recommended_capacity_mode = "on-demand" => r.recommended_trus = 0

\* C10 as amended: the recommended state is as stated (provisioned with a
\* count >= 2, on-demand with the count 0); a current mode of on-demand
\* carries no unit count and a current mode of provisioned carries the
\* count of the control plane, which is >= 1 and may be 1.
C10_CurrentAtLeastOne ==
    \A i \in DOMAIN recommendations :
        LET r == recommendations[i]
        IN  /\ r.current_capacity_mode = "provisioned"
                => (r.current_trus # None /\ r.current_trus >= 1)
            /\ r.current_capacity_mode = "on-demand" => r.current_trus = None
            /\ r.recommended_capacity_mode = "provisioned"
                => r.recommended_trus >= 2
            /\ r.recommended_capacity_mode = "on-demand" => r.recommended_trus = 0

C10_Witness ==
    \E i \in DOMAIN recommendations :
        /\ recommendations[i].current_capacity_mode = "provisioned"
        /\ recommendations[i].current_trus = 1
        /\ capacity[recommendations[i].namespace].currentValue = 1

\* the settings let the evaluation manage the namespace
IsManaged(n) ==
    /\ namespace_allowlist = {} \/ n \in namespace_allowlist
    /\ n \notin namespace_denylist

\* C14: in a bulk evaluation a managed namespace whose state lookup fails or
\* finds nothing is still recorded, with current mode on-demand and no
\* current unit count; every managed namespace of the snapshot is recorded
\* once, and the activity raises only when the metrics call itself fails.
C14_LookupFailureIsLocal ==
    /\ activity_pc = "raised" => metrics_by_namespace = <<>> /\ position = 0
    /\ \A i \in DOMAIN recommendations :
          capacity[recommendations[i].namespace].http \in {"404", "error"} =>
              /\ recommendations[i].current_capacity_mode = "on-demand"
              /\ recommendations[i].current_trus = -1
    /\ activity_pc = "returned" =>
          /\ \A k \in DOMAIN metrics_by_namespace :
                IsManaged(metrics_by_namespace[k].namespace) =>
                    Cardinality({i \in DOMAIN recommendations :
                                    recommendations[i].namespace =
                                        metrics_by_namespace[k].namespace}) = 1
          /\ \A i \in DOMAIN recommendations :
                IsManaged(recommendations[i].namespace)

\* the lookup of the first namespace failed or found nothing, and the second
\* one was looked up and recorded with its provisioned state
C14_Witness ==
    /\ activity_pc = "returned"
    /\ Len(recommendations) = 2
    /\ capacity[recommendations[1].namespace].http \in {"404", "error"}
    /\ recommendations[1].current_capacity_mode = "on-demand"
    /\ capacity[recommendations[2].namespace].http = "ok"
    /\ recommendations[2].current_capacity_mode = "provisioned"
    /\ recommendations[2].current_trus = 2

(***************************************************************************)
(* Properties of the provisioning activities, checked under                *)
(* SpecProvisioning.                                                       *)
(***************************************************************************)
\* the invocation sent an update (a POST) to the control plane
SentUpdate(invocation) ==
    \E k \in DOMAIN invocation.requests : invocation.requests[k] = "POST"

\* the namespace was in the state the request asks for when the invocation
\* started: the asked number of units for enable, on-demand for disable (no
\* provisioned current value, or 0, as the readers of the control plane
\* report it)
AlreadyAtTarget(invocation) ==
    /\ invocation.before.http = "ok"
    /\ IF request.kind = "enable"
       THEN invocation.before.currentValue = request.tru_count
       ELSE invocation.before.currentValue \in {-1, 0}

\* C11: outside dry run, enable_provisioning and disable_provisioning read
\* the namespace before any update, and for a namespace already in the target
\* state (same unit count for enable, on-demand for disable) they go on to no
\* update and report success.
C11_SkipWhenAtTarget ==
    ~dry_run_mode =>
        \A i \in DOMAIN invocations :
            LET invocation == invocations[i]
            IN  /\ (invocation.update_call \/ SentUpdate(invocation)) =>
                       /\ invocation.requests # <<>>
                       /\ invocation.requests[1] = "GET"
                /\ AlreadyAtTarget(invocation) =>
                       /\ ~invocation.update_call
                       /\ ~SentUpdate(invocation)
                       /\ invocation.result \in {"true", "interrupted"}

IsListed(n) == capacity[n].http # "404" /\ n \notin namespace_denylist

\* the control plane reports the namespace with at least one unit
IsProvisioned(n) == capacity[n].currentValue >= 1

\* the namespaces in the order the run visits them: provisioned ones first
VisitOrder ==
    SelectSeq(<<"ns1", "ns2">>, LAMBDA n : IsListed(n) /\ IsProvisioned(n))
    \o SelectSeq(<<"ns1", "ns2">>, LAMBDA n : IsListed(n) /\ ~IsProvisioned(n))

\* the action that follows from the metrics of the namespace
ExpectedAction(n) ==
    IF IsProvisioned(n)
    THEN IF throttling[n].actions_per_hour < 100 THEN "disable" ELSE "none"
    ELSE IF throttling[n].is_throttled THEN "enable" ELSE "none"

\* namespace and action of the decisions of a run whose metrics checks
\* succeed within three attempts
ExpectedDecisions ==
    LET evaluated == SelectSeq(VisitOrder, LAMBDA n : throttling[n].failures < 3)
    IN  [i \in DOMAIN evaluated |-> <<evaluated[i], ExpectedAction(evaluated[i])>>]

\* the run has returned after a successful listing
ReturnedAfterListing ==
    /\ wf_pc = "done"
    /\ history[1].event = "list_namespaces"
    /\ history[1].result = "returned"

IsProvisioningEvent(e) ==
    e.event \in {"enable_provisioning", "disable_provisioning"}

FailedFor(n) ==
    \E i \in DOMAIN history :
        /\ history[i].namespace = n
        /\ history[i].event \in {"check_throttling", "enable_provisioning",
                                 "disable_provisioning"}
        /\ history[i].result = "raise"
        /\ history[i].attempt = 3

\* C15: in a capacity-management run that has returned, a namespace whose
\* metrics check or action failed has exactly one error entry naming it and
\* is in neither the enabled nor the disabled list, and every listed
\* namespace has had its metrics check.
C15_FailureIsLocal ==
    ReturnedAfterListing =>
        \A k \in DOMAIN namespaces :
            LET n == namespaces[k].namespace
            IN  /\ \E i \in DOMAIN history :
                      /\ history[i].event = "check_throttling"
                      /\ history[i].namespace = n
                /\ FailedFor(n) =>
                      /\ Cardinality({i \in DOMAIN wf_result.errors :
                                         wf_result.errors[i].namespace = n}) = 1
                      /\ \A i \in DOMAIN wf_result.namespaces_enabled :
                            wf_result.namespaces_enabled[i] # n
                      /\ \A i \in DOMAIN wf_result.namespaces_disabled :
                            wf_result.namespaces_disabled[i] # n

\* the first namespace failed and the second one was evaluated and decided
C15_Witness ==
    /\ ReturnedAfterListing
    /\ Len(namespaces) = 2
    /\ \E i, j \in DOMAIN history :
          /\ i < j
          /\ history[i].result = "raise"
          /\ history[i].attempt = 3
          /\ history[j].event = "decision"
          /\ history[j].namespace # history[i].namespace
    /\ Len(wf_result.errors) = 1

(***************************************************************************)
(* Properties of the bulk evaluation under its retry policy, checked under *)
(* SpecBulkWorkflow.                                                       *)
(***************************************************************************)
\* the managed namespaces of the snapshot of the attempt, in its order
ManagedOfSnapshot ==
    LET managed == SelectSeq(metrics_by_namespace,
                             LAMBDA entry : IsManaged(entry.namespace))
    IN  [i \in DOMAIN managed |-> managed[i].namespace]

\* the namespaces of the recommendations of the attempt, in order
ProcessedNames ==
    [i \in DOMAIN recommendations |-> recommendations[i].namespace]

\* C19: in a bulk evaluation there is one heartbeat for every positive
\* multiple of 5 the processed count has reached, so an attempt that returns
\* with n managed namespaces has sent floor(n / 5) of them, and each reports
\* a processed count that does not exceed the total it reports.
C19_HeartbeatEveryFive ==
    /\ processed_count = Len(recommendations)
    /\ Len(heartbeats) = processed_count \div 5
    /\ \A i \in DOMAIN heartbeats :
          /\ heartbeats[i][1] = 5 * i
          /\ heartbeats[i][2] = Len(metrics_by_namespace)
          /\ heartbeats[i][1] <= heartbeats[i][2]
    /\ activity_pc = "returned" =>
          Len(heartbeats) = Len(ManagedOfSnapshot) \div 5

\* eleven namespaces in the snapshot, nine of them managed: one heartbeat
C19_Witness ==
    /\ activity_pc = "returned"
    /\ Len(metrics_by_namespace) = 11
    /\ processed_count = 9
    /\ heartbeats = << <<5, 11>> >>

IsCapacityRun == wf_input.min_actions_threshold = 100

\* the behaviour is a run of ScheduledCapacityChangeWorkflow
IsScheduledRun == sched_input.namespace # ""

\* the behaviour is a run of BulkCapacityAnalysisWorkflow
IsBulkRun == bulk_wf_pc # "idle"

IsNotification(e) == e.event = "send_slack_notification"

\* C16 as stated: when the listing of a capacity-management run or the
\* snapshot fetch of a bulk analysis has failed for good, no namespace was
\* evaluated and a notification of severity critical was sent.
C16_FetchFailureNotifies ==
    /\ (IsCapacityRun /\ wf_pc = "done" /\ history[1].result = "raise") =>
          /\ decisions = <<>>
          /\ \A i \in DOMAIN history : history[i].event # "check_throttling"
          /\ \E i \in DOMAIN history :
                IsNotification(history[i]) /\ history[i].severity = "critical"
    /\ (IsBulkRun /\ bulk_wf_pc = "raised" /\ activity_pc = "raised") =>
          /\ recommendations = <<>>
          /\ \E i \in DOMAIN history :
                IsNotification(history[i]) /\ history[i].severity = "critical"

\* the event is the failure of a step that the workflows record as an error
IsRecordedFailure(e) ==
    \/ /\ e.event \in {"check_throttling", "enable_provisioning",
                       "disable_provisioning"}
       /\ e.result = "raise"
       /\ e.attempt = 3
    \/ e.event = "list_namespaces" /\ e.result = "raise"
    \/ e.event = "verify_namespace_capacity" /\ e.result # "true"

\* the verifications of a scheduled run, in order
Verifications ==
    SelectSeq(history, LAMBDA e : e.event = "verify_namespace_capacity")

IsStateRead(i, n) ==
    \/ history[i].event = "list_namespaces" /\ history[i].result = "returned"
    \/ history[i].event = "get_namespace_info" /\ history[i].namespace = n

DecisionsOfProvisioned ==
    {i \in DOMAIN decisions : capacity[decisions[i].namespace].currentValue >= 1}

\* C22: a provisioned namespace is decided disable exactly when its actions
\* per hour are strictly below 100 and none otherwise; an on-demand namespace
\* is decided enable, with default_tru_count, exactly when it is throttled
\* and none otherwise; so a provisioned namespace is never enabled or resized
\* and an on-demand namespace is never disabled.
C22_ThresholdPolicy ==
    \A i \in DOMAIN decisions :
        LET d == decisions[i]
            metrics == throttling[d.namespace]
        IN  IF i \in DecisionsOfProvisioned
            THEN /\ d.current_state = "enabled"
                 /\ d.action \in {"disable", "none"}
                 /\ (d.action = "disable") <=> (metrics.actions_per_hour < 100)
                 /\ d.tru_count = -1
            ELSE /\ d.current_state = "disabled"
                 /\ d.action \in {"enable", "none"}
                 /\ (d.action = "enable") <=> metrics.is_throttled
                 /\ d.tru_count = IF d.action = "enable"
                                  THEN wf_input.default_tru_count ELSE -1

\* a provisioned namespace at exactly 100 actions per hour was left alone
\* and a throttled on-demand namespace was decided for enabling
C22_Witness ==
    /\ Len(decisions) = 2
    /\ 1 \in DecisionsOfProvisioned
    /\ throttling[decisions[1].namespace].actions_per_hour = 100
    /\ decisions[1].action = "none"
    /\ 2 \notin DecisionsOfProvisioned
    /\ decisions[2].action = "enable"
    /\ decisions[2].tru_count = wf_input.default_tru_count

(***************************************************************************)
(* The list a bulk evaluation returns.                                     *)
(***************************************************************************)
\* the place of a namespace in the snapshot
PlaceInSnapshot(n) ==
    CHOOSE k \in DOMAIN metrics_by_namespace :
        metrics_by_namespace[k].namespace = n

\* the namespace passes the allow/deny filter
PassesFilter(n) ==
    /\ namespace_allowlist # {} => n \in namespace_allowlist
    /\ ~(n \in namespace_denylist)

\* C23: when the snapshot fetch succeeded and the activity has returned, its
\* list holds exactly one recommendation, with the metrics of the snapshot,
\* for every namespace of the snapshot that passes the allow/deny filter,
\* none for any other namespace, and the recommendations follow the
\* insertion order of the snapshot.
C23_OnePerManagedInOrder ==
    activity_pc = "returned" =>
        /\ position = Len(metrics_by_namespace)
        /\ \A k \in DOMAIN metrics_by_namespace :
              LET entry == metrics_by_namespace[k]
                  recorded == {i \in DOMAIN recommendations :
                                  recommendations[i].namespace = entry.namespace}
              IN  IF PassesFilter(entry.namespace)
                  THEN /\ Cardinality(recorded) = 1
                       /\ \A i \in recorded :
                             /\ recommendations[i].action_limit = entry.action_limit
                             /\ recommendations[i].action_count = entry.action_count
                  ELSE recorded = {}
        /\ \A i \in DOMAIN recommendations :
              \E k \in DOMAIN metrics_by_namespace :
                  metrics_by_namespace[k].namespace = recommendations[i].namespace
        /\ \A i, j \in DOMAIN recommendations :
              i < j => PlaceInSnapshot(recommendations[i].namespace)
                           < PlaceInSnapshot(recommendations[j].namespace)

\* a snapshot that lists ns2 before ns1, both passing the filter through a
\* non-empty allowlist, returned as two recommendations in that order
C23_Witness ==
    /\ activity_pc = "returned"
    /\ Len(metrics_by_namespace) = 2
    /\ metrics_by_namespace[1].namespace = "ns2"
    /\ namespace_allowlist = {"ns1", "ns2"}
    /\ Len(recommendations) = 2
    /\ recommendations[1].namespace = "ns2"
    /\ recommendations[2].namespace = "ns1"

(***************************************************************************)
(* ScheduledCapacityChangeWorkflow: the paths through run.                 *)
(***************************************************************************)
\* the event is an attempt of the named activity
IsAttemptOf(e, activity) == e.event = activity

\* the last attempt the retry policy allows has failed for the activity
GaveUpOn(activity) ==
    \E i \in DOMAIN history :
        /\ IsAttemptOf(history[i], activity)
        /\ history[i].attempt = 3
        /\ history[i].result = "raise"

\* C24: once the initial enable_provisioning of a scheduled change has failed
\* for good, exactly one error is recorded, no verification and no revert is
\* ever attempted, run only sends its notification and returns, and the
\* result has initial_change_success, verification_success and
\* reverted_to_on_demand false and that one error.
C24_EnableFailureReturnsEarly ==
    GaveUpOn("enable_provisioning") =>
        /\ wf_pc \in {"s_notify_enable", "s_return", "done"}
        /\ Len(errors) = 1
        /\ \A i \in DOMAIN history :
              /\ ~IsAttemptOf(history[i], "verify_namespace_capacity")
              /\ ~IsAttemptOf(history[i], "disable_provisioning")
        /\ wf_pc = "done" =>
              /\ wf_result.returned
              /\ ~wf_result.initial_change_success
              /\ ~wf_result.verification_success
              /\ ~wf_result.reverted_to_on_demand
              /\ ~wf_result.revert_verification_success
              /\ Len(wf_result.errors) = 1

\* three failed attempts to enable, a notification that raised, and the
\* result returned
C24_Witness ==
    /\ wf_pc = "done"
    /\ GaveUpOn("enable_provisioning")
    /\ Len(history) = 4
    /\ history[4].event = "send_slack_notification"
    /\ history[4].severity = "critical"
    /\ history[4].result = "raise"

\* the events of the named activity, in order
AttemptsOf(activity) ==
    SelectSeq(history, LAMBDA e : IsAttemptOf(e, activity))

\* the verification of the initial change has run and did not return success
InitialVerificationFailed ==
    /\ AttemptsOf("verify_namespace_capacity") # <<>>
    /\ AttemptsOf("verify_namespace_capacity")[1].result \in {"false", "raise"}

\* C25: disable_provisioning is invoked in a scheduled change only when an
\* end_time was given and the verification of the initial change returned
\* success; when that verification returned false or raised, or no end_time
\* was given, the revert is never attempted and reverted_to_on_demand is
\* false in the workflow and in its result.
C25_RevertOnlyIfVerifiedAndEndTime ==
    /\ AttemptsOf("disable_provisioning") # <<>> =>
          /\ sched_input.end_time # -1
          /\ AttemptsOf("verify_namespace_capacity") # <<>>
          /\ AttemptsOf("verify_namespace_capacity")[1].result = "true"
          /\ sched_flags.verification_success
    /\ (InitialVerificationFailed \/ sched_input.end_time = -1) =>
          /\ AttemptsOf("disable_provisioning") = <<>>
          /\ wf_pc \notin {"s_sleep_end", "s_disable", "s_sleep_revert",
                           "s_verify_revert", "s_notify_revert",
                           "s_notify_revert_verify"}
          /\ ~sched_flags.reverted_to_on_demand
          /\ wf_pc = "done" => ~wf_result.reverted_to_on_demand

\* an end_time was given, the initial change went through, its verification
\* returned false, and the run returned without having tried the revert
C25_Witness ==
    /\ wf_pc = "done"
    /\ sched_input.end_time > now
    /\ wf_result.initial_change_success
    /\ AttemptsOf("verify_namespace_capacity")[1].result = "false"
    /\ AttemptsOf("disable_provisioning") = <<>>
    /\ ~wf_result.reverted_to_on_demand

\* C27: when the revert of a scheduled change has failed for good, one error
\* is recorded, the revert verification is never run, and the result has
\* initial_change_success and verification_success true and
\* reverted_to_on_demand and revert_verification_success false with exactly
\* that error; when the revert succeeded and its verification returned
\* false, reverted_to_on_demand is true, revert_verification_success is
\* false and exactly one error is recorded.
C27_RevertFailures ==
    /\ GaveUpOn("disable_provisioning") =>
          /\ wf_pc \in {"s_notify_revert", "s_return", "done"}
          /\ Len(AttemptsOf("verify_namespace_capacity")) = 1
          /\ Len(errors) = 1
          /\ wf_pc = "done" =>
                /\ wf_result.initial_change_success
                /\ wf_result.verification_success
                /\ ~wf_result.reverted_to_on_demand
                /\ ~wf_result.revert_verification_success
                /\ Len(wf_result.errors) = 1
    /\ (/\ Len(AttemptsOf("verify_namespace_capacity")) = 2
        /\ AttemptsOf("verify_namespace_capacity")[2].result = "false") =>
          /\ \E i \in DOMAIN history :
                /\ IsAttemptOf(history[i], "disable_provisioning")
                /\ history[i].result = "true"
          /\ Len(errors) = 1
          /\ wf_pc = "done" =>
                /\ wf_result.initial_change_success
                /\ wf_result.verification_success
                /\ wf_result.reverted_to_on_demand
                /\ ~wf_result.revert_verification_success
                /\ Len(wf_result.errors) = 1

\* a run whose revert failed three times and that returned
C27_Witness ==
    /\ wf_pc = "done"
    /\ GaveUpOn("disable_provisioning")
    /\ wf_result.verification_success
    /\ ~wf_result.reverted_to_on_demand

\* a run whose revert went through and whose revert verification returned
\* false
C27_WitnessUnverified ==
    /\ wf_pc = "done"
    /\ wf_result.reverted_to_on_demand
    /\ Len(AttemptsOf("verify_namespace_capacity")) = 2
    /\ AttemptsOf("verify_namespace_capacity")[2].result = "false"

\* the initial change was verified and an end time was given
VerifiedWithEndTime ==
    /\ sched_input.namespace # ""
    /\ sched_input.end_time # -1
    /\ sched_flags.verification_success

\* the revert has returned
RevertReturned ==
    \E i \in DOMAIN history :
        IsAttemptOf(history[i], "disable_provisioning") /\ history[i].result = "true"

\* the revert is issued at or after end_time, and run waits for end_time only
\* while end_time is later than the current time
RevertNotBeforeEndTime ==
    /\ wf_pc = "s_disable" => now >= sched_input.end_time
    /\ AttemptsOf("disable_provisioning") # <<>> => now >= sched_input.end_time
    /\ wf_pc = "s_sleep_end" => sched_input.end_time > now

\* the step from the verified initial change, or from the wait for end_time,
\* to the revert
StepToRevert ==
    /\ (/\ wf_pc = "s_verify"
        /\ VerifiedWithEndTime'
        /\ sched_input.end_time <= now') => wf_pc' = "s_disable"
    /\ (/\ wf_pc = "s_verify"
        /\ VerifiedWithEndTime'
        /\ sched_input.end_time > now') => wf_pc' = "s_sleep_end"
    /\ (wf_pc = "s_sleep_end" /\ wf_pc' # wf_pc) =>
          (wf_pc' = "s_disable" /\ now' = sched_input.end_time)

ListedByControlPlane ==
    SelectSeq(<<"ns1", "ns2">>, LAMBDA n : capacity[n].http # "404")

\* the namespaces of the snapshot the loop has gone through, in order
WalkedOfSnapshot ==
    [k \in 1..position |-> metrics_by_namespace[k].namespace]

\* C29: should_manage_namespace is true exactly when the allowlist is empty
\* or holds the namespace, and the denylist does not hold it, so a namespace
\* in both lists is not managed; the listing of a capacity-management run
\* returns exactly the namespaces of the control plane for which that holds,
\* and the bulk evaluation records exactly the namespaces of the snapshot
\* for which that holds.
C29_FilterIsAllowAndNotDeny ==
    /\ \A allowlist, denylist \in SUBSET {"ns1", "ns2"} :
          \A n \in {"ns1", "ns2"} :
              should_manage_namespace(allowlist, denylist, n) <=>
                  /\ allowlist = {} \/ n \in allowlist
                  /\ n \notin denylist
    /\ (wf_pc \notin {"idle", "list"} /\ history[1].result = "returned") =>
          [i \in DOMAIN namespaces |-> namespaces[i].namespace]
              = SelectSeq(ListedByControlPlane, PassesFilter)
    /\ activity_pc \in {"loop", "returned"} =>
          [i \in DOMAIN recommendations |-> recommendations[i].namespace]
              = SelectSeq(WalkedOfSnapshot, PassesFilter)

\* ns1 is in both lists and ns2 in the allowlist only: the listing returned
\* ns2 alone and the run has decided for it
C29_Witness ==
    /\ namespace_allowlist = {"ns1", "ns2"}
    /\ namespace_denylist = {"ns1"}
    /\ ListedByControlPlane = <<"ns1", "ns2">>
    /\ Len(namespaces) = 1
    /\ namespaces[1].namespace = "ns2"
    /\ Len(decisions) = 1

(***************************************************************************)
(* The update the provisioning activities make.                            *)
(***************************************************************************)
\* the invocation found the namespace away from what the request asks for:
\* another unit count for enable, a provisioned namespace for disable
AwayFromTarget(invocation) ==
    /\ invocation.before.http = "ok"
    /\ IF request.kind = "enable"
       THEN invocation.before.currentValue # request.tru_count
       ELSE invocation.before.currentValue >= 1

\* the update requests the invocation sent to the control plane
UpdatesSent(invocation) ==
    {k \in DOMAIN invocation.requests : invocation.requests[k] = "POST"}

\* C30: outside dry run, an invocation of enable_provisioning that finds
\* another unit count than the requested one, or of disable_provisioning
\* that finds the namespace provisioned, sends exactly one update request to
\* the control plane and, the request succeeding, reports True.
C30_OneUpdateWhenAway ==
    ~dry_run_mode =>
        \A i \in DOMAIN invocations :
            AwayFromTarget(invocations[i]) =>
                /\ Cardinality(UpdatesSent(invocations[i])) = 1
                /\ invocations[i].result \in {"true", "interrupted"}

(***************************************************************************)
(* The signal trigger_evaluation.                                          *)
(***************************************************************************)
\* the event at place i of the history is followed by a listing of the
\* namespaces, the first step of an evaluation
FollowedByEvaluation(i) ==
    \E j \in DOMAIN history :
        j > i /\ history[j].event = "list_namespaces"

\* C28: every trigger_evaluation signal delivered to a capacity-management
\* workflow is followed by an evaluation of the namespaces: when the
\* workflow has returned, a listing of the namespaces has taken place after
\* each signal.
C28_SignalLeadsToEvaluation ==
    wf_pc = "done" =>
        \A i \in DOMAIN history :
            history[i].event = "trigger_evaluation" => FollowedByEvaluation(i)

(***************************************************************************)
(* The cancellation of a capacity-management run.                          *)
(***************************************************************************)
\* the run was cancelled
WasCancelled ==
    \E i \in DOMAIN history : history[i].result = "cancelled"

\* the decision at place i was carried out to its end: its action returned
\* and the namespace is in the list of its kind, or its action failed and an
\* error names the namespace
CarriedOut(i) ==
    LET d == decisions[i]
    IN  \/ d.action = "none"
        \/ /\ d.action = "disable"
           /\ \E k \in DOMAIN namespaces_disabled :
                 namespaces_disabled[k] = d.namespace
        \/ /\ d.action = "enable"
           /\ \E k \in DOMAIN namespaces_enabled :
                 namespaces_enabled[k] = d.namespace
        \/ \E k \in DOMAIN errors : errors[k].namespace = d.namespace

\* C21, the part the code of run decides: when a capacity-management run
\* was cancelled between two namespaces, every decision recorded so far was
\* carried out to its end and the decisions can be read by preview_actions.
C21_NoDecisionHalfApplied ==
    WasCancelled =>
        /\ \A i \in DOMAIN decisions : CarriedOut(i)
        /\ preview_actions = decisions

\* C21: when a capacity-management run was cancelled between two
\* namespaces, every decision recorded so far was carried out to its end,
\* the decisions can be read, and once the run has ended the enabled and
\* disabled lists and the errors accumulated so far are reported in its
\* result.
C21_PartialResultReported ==
    WasCancelled =>
        /\ \A i \in DOMAIN decisions : CarriedOut(i)
        /\ preview_actions = decisions
        /\ wf_pc \in {"cancelled", "done"} =>
              /\ wf_result.returned
              /\ wf_result.decisions = decisions
              /\ wf_result.namespaces_enabled = namespaces_enabled
              /\ wf_result.namespaces_disabled = namespaces_disabled
              /\ wf_result.errors = errors

(***************************************************************************)
(* The two tests of the provisioned branch of the engine, under            *)
(* SpecEngine.                                                             *)
(***************************************************************************)
\* the recommendation when the scale-down test is made before the scale-up
\* test
ScaleDownTestedFirst ==
    IF scale_down_needed(LimitUnits, arg_count)
    THEN scale_down_trus(LimitUnits, arg_count)
    ELSE IF scale_up_needed(LimitUnits, arg_count)
    THEN scale_up_trus(LimitUnits, arg_count)
    ELSE LimitUnits

\* C34: for a provisioned size c >= 2 the scale-up condition (load at or
\* above 80% of 500*c) and the scale-down condition (load below (c-1)*100)
\* are never both true, neither as the claim writes them nor as the engine
\* tests them, and the result is the one the engine would give with the two
\* tests in the other order.
C34_TestsAreDisjoint ==
    (called /\ LimitUnits >= 2) =>
        /\ ~(AtOrAboveEighty /\ BelowMinCharged)
        /\ ~(/\ scale_up_needed(LimitUnits, arg_count)
             /\ scale_down_needed(LimitUnits, arg_count))
        /\ ret = ScaleDownTestedFirst

\* the largest size of the inputs with a load one action per second below
\* its minimum charged load: scale-down, and far from a scale-up
C34_Witness ==
    /\ called
    /\ LimitUnits = 12
    /\ arg_count = 1099 * Scale
    /\ BelowMinCharged
    /\ ~AtOrAboveEighty
    /\ ret = 11

RecommendationsAtOrAbove ==
    {_calculate_recommended_trus(arg_limit, b) :
        b \in {x \in LoadInputs : x >= arg_count}}

\* C36: for a fixed limit the recommendation is non-decreasing in the load:
\* the value returned for the evaluated load does not exceed the
\* recommendation of any load at or above it, at the same limit.
C36_MonotoneInLoad ==
    called => \A r \in RecommendationsAtOrAbove : ret <= r

\* eleven units and a load just above 600: 7 is returned, and the loads
\* above it are answered with 7, ..., 11 (no change) and 12 (scale-up)
C36_Witness ==
    /\ called
    /\ arg_limit = 5500 * Scale
    /\ arg_count = 600 * Scale + 1
    /\ ret = 7
    /\ {7, 11, 12} \subseteq RecommendationsAtOrAbove

\* the provisioned size the limit of cycle i stands for, 0 and 1 being the
\* same size
SizeAtCycle(i) ==
    LET units == history[i].action_limit \div (500 * Scale)
    IN  IF units <= 1 THEN 0 ELSE units

ScaleUpAtCycle(i) == history[i].recommended_trus > SizeAtCycle(i)

\* a scale-down or a drop to 0
ScaleDownAtCycle(i) == history[i].recommended_trus < SizeAtCycle(i)

\* N = recommend(500 * N, L): the recommendation of cycle i is the size it
\* was computed for
FixedPointAtCycle(i) == history[i].recommended_trus = SizeAtCycle(i)

\* the cycle by which the load L has reached its fixed point
FixedPointCycle == (arg_count \div (400 * Scale)) + 2

\* C33: under a constant load, with every recommendation put in place before
\* the next cycle, a scale-up is never followed by a scale-down, a scale-down
\* or a drop to 0 is never followed by a scale-up, the recommendations are
\* non-decreasing or non-increasing over the cycles, a fixed point once
\* reached is kept, and it is reached by cycle floor(L / 400) + 2.  No run
\* has both a cycle that scales up and a cycle that scales down, whatever
\* their order.
C33_NoFlapping ==
    LET cycles == 1..Len(history)
        followed == 1..(Len(history) - 1)
    IN  /\ \/ \A i \in cycles : ~ScaleUpAtCycle(i)
           \/ \A i \in cycles : ~ScaleDownAtCycle(i)
        /\ \/ \A i \in followed : history[i].recommended_trus
                                      <= history[i + 1].recommended_trus
           \/ \A i \in followed : history[i].recommended_trus
                                      >= history[i + 1].recommended_trus
        /\ \A i \in followed :
               FixedPointAtCycle(i) =>
                   /\ FixedPointAtCycle(i + 1)
                   /\ history[i + 1].recommended_trus
                          = history[i].recommended_trus
        /\ \A i \in cycles : i >= FixedPointCycle => FixedPointAtCycle(i)

\* a load of 900 on an on-demand namespace: 2 is recommended, then 3 (900 is
\* 90% of 1000), then 3 again
C33_Witness ==
    /\ Len(history) = 3
    /\ arg_count = 900 * Scale
    /\ history[1].action_limit = 0
    /\ history[1].recommended_trus = 2
    /\ history[2].recommended_trus = 3
    /\ history[3].recommended_trus = 3
    /\ FixedPointAtCycle(3)

\* eleven units and a load of 650: 7 is recommended and kept
C33_WitnessScaleDown ==
    /\ Len(history) = 2
    /\ arg_count = 650 * Scale
    /\ history[1].action_limit = 5500 * Scale
    /\ ScaleDownAtCycle(1)
    /\ history[1].recommended_trus = 7
    /\ FixedPointAtCycle(2)

\* the entry of the snapshot for the namespace
EntryOf(namespace) ==
    metrics_by_namespace[CHOOSE k \in DOMAIN metrics_by_namespace :
                             metrics_by_namespace[k].namespace = namespace]

\* C37: in a bulk evaluation the recommended unit count and mode of a
\* namespace are those the engine gives for the action_limit and action_count
\* of its own snapshot entry, whatever the state lookup answered; two
\* namespaces with the same two metrics get the same recommendation, whatever
\* their states and their places in the snapshot.
C37_RecommendationFromOwnMetrics ==
    \A i \in DOMAIN recommendations :
        LET r == recommendations[i]
            own == EntryOf(r.namespace)
            expected ==
                _calculate_recommended_trus(own.action_limit, own.action_count)
        IN  /\ r.recommended_trus = expected
            /\ r.recommended_capacity_mode =
                   IF expected = 0 THEN "on-demand" ELSE "provisioned"
            /\ \A j \in DOMAIN recommendations :
                   LET q == recommendations[j]
                       other == EntryOf(q.namespace)
                   IN  (/\ own.action_limit = other.action_limit
                        /\ own.action_count = other.action_count) =>
                           /\ q.recommended_trus = r.recommended_trus
                           /\ q.recommended_capacity_mode
                                  = r.recommended_capacity_mode

\* two namespaces with a limit of 500 and a load of 1200: the lookup of the
\* first fails, the second is provisioned with 3 units, and both get a
\* recommendation of 3 provisioned units
C37_Witness ==
    /\ activity_pc = "returned"
    /\ Len(recommendations) = 2
    /\ \A i \in 1..2 :
          /\ recommendations[i].action_limit = 500 * Scale
          /\ recommendations[i].action_count = 1200 * Scale
          /\ recommendations[i].recommended_trus = 3
          /\ recommendations[i].recommended_capacity_mode = "provisioned"
    /\ capacity[recommendations[1].namespace].http = "error"
    /\ recommendations[1].current_capacity_mode = "on-demand"
    /\ capacity[recommendations[2].namespace].currentValue = 3
    /\ recommendations[2].current_capacity_mode = "provisioned"
    /\ recommendations[2].current_trus = 3

\* the list short is a prefix of the list long
IsPrefix(short, long) ==
    /\ Len(short) <= Len(long)
    /\ \A k \in 1..Len(short) : long[k] = short[k]

\* C32: during one capacity-management run the list the preview_actions
\* query returns only grows at its end: every step leaves it a prefix of
\* the list the query returns after the step, and once run has returned, the
\* list of the query is the decisions of the result.
C32_DecisionsAppendOnly ==
    [][/\ IsPrefix(preview_actions, preview_actions')
       /\ wf_result'.returned =>
              /\ wf_result'.decisions = preview_actions'
              /\ IsPrefix(preview_actions, wf_result'.decisions)]_vars

\* the second decision of a run has just been recorded behind the first one
\* and its action is still to be carried out
C32_Witness ==
    /\ wf_pc = "act"
    /\ ~wf_result.returned
    /\ Len(preview_actions) = 2
    /\ preview_actions[1].namespace = "ns1"
    /\ preview_actions[1].action = "disable"
    /\ preview_actions[2].namespace = "ns2"
    /\ preview_actions[2].action = "enable"

\* the result has a decision with the action for the namespace
HasDecision(namespace, action) ==
    \E k \in DOMAIN wf_result.decisions :
        /\ wf_result.decisions[k].namespace = namespace
        /\ wf_result.decisions[k].action = action

\* check_throttling returned metrics for every listed namespace
EveryCheckSucceeded ==
    \A k \in DOMAIN namespaces :
        throttling[namespaces[k].namespace].failures < 3

\* C39: in every result of a capacity-management run each namespace of
\* namespaces_enabled has a decision enable, each namespace of
\* namespaces_disabled has a decision disable, no namespace is in both lists,
\* no namespace has two decisions, and the number of decisions is at most
\* total_namespaces_checked, and equal to it when every check succeeded.
C39_ResultIsConsistent ==
    wf_result.returned =>
        /\ \A k \in DOMAIN wf_result.namespaces_enabled :
               HasDecision(wf_result.namespaces_enabled[k], "enable")
        /\ \A k \in DOMAIN wf_result.namespaces_disabled :
               HasDecision(wf_result.namespaces_disabled[k], "disable")
        /\ \A k \in DOMAIN wf_result.namespaces_enabled :
               \A l \in DOMAIN wf_result.namespaces_disabled :
                   wf_result.namespaces_enabled[k]
                       # wf_result.namespaces_disabled[l]
        /\ \A k, l \in DOMAIN wf_result.decisions :
               k # l => wf_result.decisions[k].namespace
                            # wf_result.decisions[l].namespace
        /\ Len(wf_result.decisions) <= wf_result.total_namespaces_checked
        /\ EveryCheckSucceeded =>
               Len(wf_result.decisions) = wf_result.total_namespaces_checked

\* a dry run that disabled ns1 and enabled ns2
C39_Witness ==
    /\ wf_result.returned
    /\ wf_result.total_namespaces_checked = 2
    /\ wf_result.namespaces_disabled = <<"ns1">>
    /\ wf_result.namespaces_enabled = <<"ns2">>
    /\ Len(wf_result.decisions) = 2
    /\ HasDecision("ns1", "disable")
    /\ HasDecision("ns2", "enable")

\* a check gave up on ns1: the result has fewer decisions than namespaces
C39_WitnessFewer ==
    /\ wf_result.returned
    /\ wf_result.total_namespaces_checked = 2
    /\ Len(wf_result.decisions) = 1
    /\ ~EveryCheckSucceeded

\* a step of the scheduled change was attempted and did not succeed: an
\* enable or a revert failed for good, or a verification raised or returned
\* false
SomeStepFailed ==
    \/ GaveUpOn("enable_provisioning")
    \/ GaveUpOn("disable_provisioning")
    \/ \E i \in DOMAIN history :
          /\ IsAttemptOf(history[i], "verify_namespace_capacity")
          /\ history[i].result \in {"false", "raise"}

\* C38: in every result of the scheduled capacity change
\* revert_verification_success implies reverted_to_on_demand, which implies
\* verification_success and a given end_time, verification_success implies
\* initial_change_success, and the errors list is empty if and only if no
\* step that was attempted (enable, verification, revert, revert
\* verification) failed.
C38_FlagsAndErrorsAgree ==
    wf_result.returned =>
        /\ wf_result.revert_verification_success =>
               wf_result.reverted_to_on_demand
        /\ wf_result.reverted_to_on_demand =>
               /\ wf_result.verification_success
               /\ sched_input.end_time # -1
        /\ wf_result.verification_success => wf_result.initial_change_success
        /\ wf_result.errors = <<>> <=> ~SomeStepFailed

\* every step succeeded: the four flags are true and there is no error
C38_Witness ==
    /\ wf_result.returned
    /\ wf_result.initial_change_success
    /\ wf_result.verification_success
    /\ wf_result.reverted_to_on_demand
    /\ wf_result.revert_verification_success
    /\ wf_result.errors = <<>>
    /\ Len(AttemptsOf("verify_namespace_capacity")) = 2

\* the revert was made and its verification did not pass: three flags are
\* true and there is one error
C38_WitnessError ==
    /\ wf_result.returned
    /\ wf_result.reverted_to_on_demand
    /\ ~wf_result.revert_verification_success
    /\ Len(wf_result.errors) = 1
    /\ SomeStepFailed

\* get_namespace_info and list_namespaces report the answer as provisioned
ReadersReportProvisioned(response) ==
    /\ get_namespace_info(response).provisioning_state = "enabled"
    /\ response.currentValue # -1
    /\ response.currentValue # 0

\* C40: outside dry run disable_provisioning classifies the state it read as
\* the readers do: it goes on to its update for the answers that
\* get_namespace_info and list_namespaces report as provisioned, and skips it
\* for those they report as on-demand (current value absent or 0).
C40_DisableClassifiesAsReaders ==
    (~dry_run_mode /\ request.kind = "disable") =>
        \A i \in DOMAIN invocations :
            invocations[i].before.http = "ok" =>
                (invocations[i].update_call
                     <=> ReadersReportProvisioned(invocations[i].before))

\* the activities the workflows run under RetryPolicy(maximum_attempts=3)
\* and whose failure they record
RetriedActivities ==
    {"check_throttling", "enable_provisioning", "disable_provisioning",
     "verify_namespace_capacity"}

\* the events a step appends to history
NewEvents ==
    IF Len(history') > Len(history)
    THEN SubSeq(history', Len(history) + 1, Len(history'))
    ELSE <<>>

\* the event is the failure of an attempt of a retried activity
IsFailedAttempt(e) ==
    e.event \in RetriedActivities /\ e.result = "raise"

\* C31: every attempt of check_throttling, enable_provisioning,
\* disable_provisioning and verify_namespace_capacity has a number from 1 to
\* 3; a failed attempt before the third records no error and is followed by
\* the next attempt of the same invocation; the failure of the third attempt
\* records one error, for the namespace of the activity; an error is recorded
\* by no other attempt of these activities than a third one that failed or a
\* verification that returned false; and get_all_namespace_metrics is
\* attempted at most 3 times, the bulk workflow raising only after its third
\* attempt ended without a result.
C31_AtMostThreeAttempts ==
    [][/\ \A k \in DOMAIN NewEvents :
              LET e == NewEvents[k]
              IN  e.event \in RetriedActivities =>
                      /\ e.attempt \in 1..3
                      /\ (IsFailedAttempt(e) /\ e.attempt < 3) =>
                             /\ errors' = errors
                             /\ wf_pc' = wf_pc
                             /\ attempt' = e.attempt + 1
                      /\ (IsFailedAttempt(e) /\ e.attempt = 3) =>
                             /\ Len(errors') = Len(errors) + 1
                             /\ errors'[Len(errors')].namespace = e.namespace
                      /\ (e.attempt > 1
                              /\ e.event # "verify_namespace_capacity") =>
                             /\ history # <<>>
                             /\ history[Len(history)].event = e.event
                             /\ history[Len(history)].namespace = e.namespace
                             /\ history[Len(history)].attempt = e.attempt - 1
                             /\ history[Len(history)].result = "raise"
       /\ errors' # errors =>
              \E k \in DOMAIN NewEvents :
                  \/ IsFailedAttempt(NewEvents[k]) /\ NewEvents[k].attempt = 3
                  \/ /\ NewEvents[k].event = "verify_namespace_capacity"
                     /\ NewEvents[k].result = "false"
                  \/ /\ NewEvents[k].event = "list_namespaces"
                     /\ NewEvents[k].result = "raise"
       /\ bulk_attempt' <= 3
       /\ Len(attempts') <= 3
       /\ bulk_wf_pc' = "raised" => Len(attempts') = 3]_vars

\* check_throttling failed three times for a namespace and the one error of
\* the run was recorded after the third failure
C31_Witness ==
    /\ wf_pc = "notify"
    /\ Len(errors) = 1
    /\ Len(history) >= 3
    /\ \A k \in 0..2 :
          /\ history[Len(history) - k].event = "check_throttling"
          /\ history[Len(history) - k].attempt = 3 - k
          /\ history[Len(history) - k].result = "raise"
          /\ history[Len(history) - k].namespace = errors[1].namespace

\* a verification raised on its third attempt
C31_WitnessVerification ==
    /\ wf_pc = "s_notify_verify"
    /\ Len(errors) = 1
    /\ history[Len(history)].event = "verify_namespace_capacity"
    /\ history[Len(history)].attempt = 3
    /\ history[Len(history)].result = "raise"

\* the bulk workflow raised after three attempts of get_all_namespace_metrics
C31_WitnessBulk ==
    /\ bulk_wf_pc = "raised"
    /\ bulk_attempt = 3
    /\ Len(attempts) = 3

====
